---- MODULE Spec2Model ----
(***************************************************************************)
(* PitWall-Live: the temporal feature engineering engine.                  *)
(*                                                                         *)
(*   src/models/src/features/engineer.py   FeatureEngineer                 *)
(*   src/models/src/data/processor.py      DataProcessor                   *)
(*   src/models/src/data/loader.py         F1DataLoader (shape of tables)  *)
(*                                                                         *)
(* A pandas table is a sequence of rows (records); the index label of a    *)
(* row is its place in the sequence (the loader concatenates with          *)
(* ignore_index=True).  A missing value (NaN, None, NaT) is the empty      *)
(* sequence <<>> and a present value v is <<v>>, so that a comparison with *)
(* a missing value is FALSE as in pandas.  A float is an exact rational    *)
(* <<numerator, denominator>> in lowest terms, or <<>> for NaN.            *)
(***************************************************************************)
EXTENDS Integers, Sequences, FiniteSets, TLC

\* ------------------------------------------------------------------------
\* Values
\* ------------------------------------------------------------------------

NaN == <<>>

Some(v) == <<v>>

Abs(n) == IF n < 0 THEN 0 - n ELSE n

RECURSIVE GCD(_, _)
GCD(a, b) == IF b = 0 THEN a ELSE GCD(b, a % b)

\* The rational n/d (d > 0) in lowest terms.
Rat(n, d) ==
    LET g == GCD(Abs(n), d)
    IN  <<n \div g, d \div g>>

Num(n) == <<n, 1>>

RatAdd(p, q) == Rat(p[1] * q[2] + q[1] * p[2], p[2] * q[2])

RatSub(p, q) == Rat(p[1] * q[2] - q[1] * p[2], p[2] * q[2])

\* p / n for an integer n > 0.
RatDivInt(p, n) == Rat(p[1], p[2] * n)

\* ------------------------------------------------------------------------
\* pandas: columns, reductions, filters, sorting
\* ------------------------------------------------------------------------

\* df[c]: the column c of a table, as a sequence of values.
Col(df, c) == [i \in 1..Len(df) |-> df[i][c]]

RECURSIVE SumInt(_)
SumInt(s) == IF s = <<>> THEN 0 ELSE Head(s) + SumInt(Tail(s))

RECURSIVE SumRat(_)
SumRat(s) == IF s = <<>> THEN Num(0) ELSE RatAdd(Head(s), SumRat(Tail(s)))

\* Series.dropna() on a column of nullable values, unwrapped.
Present(s) ==
    LET kept == SelectSeq(s, LAMBDA v : v # NaN)
    IN  [i \in 1..Len(kept) |-> kept[i][1]]

\* Series.mean() of a nullable integer column: NaN values are skipped, and the
\* mean of no value is NaN.
MeanOpt(s) ==
    LET v == Present(s)
    IN  IF Len(v) = 0 THEN NaN ELSE Rat(SumInt(v), Len(v))

\* Series.mean() of an integer column without missing values.
MeanInt(s) == IF Len(s) = 0 THEN NaN ELSE Rat(SumInt(s), Len(s))

\* Series.mean() of a float column (rationals, NaN skipped).
MeanRat(s) ==
    LET v == SelectSeq(s, LAMBDA q : q # NaN)
    IN  IF Len(v) = 0 THEN NaN ELSE RatDivInt(SumRat(v), Len(v))

\* Series.mean() of a boolean column: the share of True.
MeanBool(s) ==
    IF Len(s) = 0 THEN NaN
    ELSE Rat(Len(SelectSeq(s, LAMBDA b : b)), Len(s))

\* (col == k).sum(): a missing value compares False.
CountEq(s, k) == Len(SelectSeq(s, LAMBDA v : v # NaN /\ v[1] = k))

\* (col <= k).sum(): a missing value compares False.
CountLe(s, k) == Len(SelectSeq(s, LAMBDA v : v # NaN /\ v[1] <= k))

\* Series.min() of a nullable integer column (NaN skipped, NaN if none).
MinOpt(s) ==
    LET v == Present(s)
    IN  IF Len(v) = 0 THEN NaN
        ELSE Some(CHOOSE m \in {v[i] : i \in 1..Len(v)} :
                      \A i \in 1..Len(v) : m <= v[i])

\* Series.abs() of a nullable integer column.
AbsCol(s) == [i \in 1..Len(s) |-> IF s[i] = NaN THEN NaN ELSE Some(Abs(s[i][1]))]

\* len(col.unique())
NUnique(s) == Cardinality({s[i] : i \in 1..Len(s)})

\* The first n rows instead of the last.
tail_First(df, n) ==
    IF Len(df) <= n THEN df ELSE SubSeq(df, 1, n)

\* df.tail(n)
tail(df, n) ==
    IF Len(df) <= n THEN df ELSE SubSeq(df, Len(df) - n + 1, Len(df))

\* One step of an insertion sort: row r placed after every row of the sorted
\* sequence s whose key is not greater.
RECURSIVE InsertBy(_, _, _)
InsertBy(s, r, c) ==
    IF s = <<>> THEN <<r>>
    ELSE IF s[Len(s)][c] <= r[c] THEN Append(s, r)
    ELSE Append(InsertBy(SubSeq(s, 1, Len(s) - 1), r, c), s[Len(s)])

\* df.sort_values(c) on an integer column c without missing values: ascending,
\* rows of equal key kept in their order (numpy sorts the short runs of these
\* tables by insertion).
RECURSIVE sort_values(_, _)
sort_values(df, c) ==
    IF df = <<>> THEN <<>>
    ELSE InsertBy(sort_values(SubSeq(df, 1, Len(df) - 1), c), df[Len(df)], c)

\* pd.concat / list building: the rows of several tables, one after another.
RECURSIVE Concat(_)
Concat(ss) == IF ss = <<>> THEN <<>> ELSE Head(ss) \o Concat(Tail(ss))

\* {**f, **g}: the keys of both, the later mapping winning.
Merge(f, g) ==
    [k \in (DOMAIN f) \cup (DOMAIN g) |-> IF k \in DOMAIN g THEN g[k] ELSE f[k]]

\* ------------------------------------------------------------------------
\* FeatureEngineer: driver features
\* ------------------------------------------------------------------------

_default_driver_features ==
    [ avg_finish_last_n      |-> Num(15),
      avg_grid_last_n        |-> Num(15),
      avg_points_last_n      |-> Num(0),
      wins_last_n            |-> Num(0),
      podiums_last_n         |-> Num(0),
      points_finishes_last_n |-> Num(0),
      avg_positions_gained   |-> Num(0),
      dnf_rate               |-> Rat(1, 10),
      career_races           |-> Num(0),
      career_wins            |-> Num(0),
      career_podiums         |-> Num(0),
      career_points          |-> Num(0),
      season_points          |-> Num(0),
      season_position        |-> Num(20) ]

\* The cutoff filter with the cutoff date itself let through.
BeforeCutoff_Inclusive(df, as_of_date) ==
    IF as_of_date # NaN
    THEN SelectSeq(df, LAMBDA r : r.Date <= as_of_date[1])
    ELSE df

\* df[df["Date"] < as_of_date] when a cutoff is given (a Timestamp is always
\* truthy), df otherwise.
BeforeCutoff(df, as_of_date) ==
    IF as_of_date # NaN
    THEN SelectSeq(df, LAMBDA r : r.Date < as_of_date[1])
    ELSE df

compute_driver_features(results, driver_id, as_of_date, window) ==
    LET df0 == SelectSeq(results, LAMBDA r : r.Abbreviation = driver_id)
        df1 == BeforeCutoff(df0, as_of_date)
    IN  IF Len(df1) = 0 THEN _default_driver_features
        ELSE
          LET df     == sort_values(df1, "Date")
              recent == tail(df, window)
          IN  [ avg_finish_last_n      |-> MeanOpt(Col(recent, "Position")),
                avg_grid_last_n        |-> MeanOpt(Col(recent, "GridPosition")),
                avg_points_last_n      |-> MeanInt(Col(recent, "Points")),
                wins_last_n            |-> Num(CountEq(Col(recent, "Position"), 1)),
                podiums_last_n         |-> Num(CountLe(Col(recent, "Position"), 3)),
                points_finishes_last_n |-> Num(CountLe(Col(recent, "Position"), 10)),
                avg_positions_gained   |-> MeanOpt(Col(recent, "PositionsGained")),
                dnf_rate               |-> MeanBool(Col(df, "IsDNF")),
                career_races           |-> Num(Len(df)),
                career_wins            |-> Num(CountEq(Col(df, "Position"), 1)),
                career_podiums         |-> Num(CountLe(Col(df, "Position"), 3)),
                career_points          |-> Num(SumInt(Col(df, "Points"))),
                season_points          |-> Num(0),
                season_position        |-> Num(0) ]

\* ------------------------------------------------------------------------
\* FeatureEngineer: circuit features
\* ------------------------------------------------------------------------

_default_circuit_features ==
    [ circuit_races_in_data |-> Num(0),
      circuit_sc_rate       |-> Rat(1, 2),
      avg_position_changes  |-> Num(3),
      circuit_dnf_rate      |-> Rat(1, 10) ]

\* The update of lines 187-205: nothing without a driver id.
DriverCircuitFeatures(circuit_df, driver_id) ==
    IF driver_id = NaN THEN << >>
    ELSE
      LET driver_circuit ==
              SelectSeq(circuit_df, LAMBDA r : r.Abbreviation = driver_id[1])
      IN  IF Len(driver_circuit) > 0
          THEN [ driver_circuit_races       |-> Num(Len(driver_circuit)),
                 driver_circuit_avg_finish  |-> MeanOpt(Col(driver_circuit, "Position")),
                 driver_circuit_best_finish |->
                     LET m == MinOpt(Col(driver_circuit, "Position"))
                     IN  IF m = NaN THEN NaN ELSE Num(m[1]),
                 driver_circuit_wins        |-> Num(CountEq(Col(driver_circuit, "Position"), 1)),
                 driver_circuit_podiums     |-> Num(CountLe(Col(driver_circuit, "Position"), 3)) ]
          ELSE [ driver_circuit_races       |-> Num(0),
                 driver_circuit_avg_finish  |-> Num(10),
                 driver_circuit_best_finish |-> Num(10),
                 driver_circuit_wins        |-> Num(0),
                 driver_circuit_podiums     |-> Num(0) ]

\* driver_id is NaN for None, Some(id) otherwise.
compute_circuit_features(results, circuit_name, driver_id) ==
    LET circuit_df == SelectSeq(results, LAMBDA r : r.GrandPrix = circuit_name)
    IN  IF Len(circuit_df) = 0 THEN _default_circuit_features
        ELSE Merge(
               [ circuit_races_in_data |-> Num(NUnique(Col(circuit_df, "Season"))),
                 circuit_sc_rate       |-> Rat(1, 2),
                 avg_position_changes  |-> MeanOpt(AbsCol(Col(circuit_df, "PositionsGained"))),
                 circuit_dnf_rate      |-> MeanBool(Col(circuit_df, "IsDNF")) ],
               DriverCircuitFeatures(circuit_df, driver_id))

\* ------------------------------------------------------------------------
\* FeatureEngineer: team features
\* ------------------------------------------------------------------------

\* The team defaults with a perfect reliability.
_default_team_features_Reliable ==
    [ team_avg_points_last_n    |-> Num(5),
      team_avg_finish_last_n    |-> Num(10),
      team_season_points        |-> Num(0),
      team_constructor_position |-> Num(5),
      team_reliability_rate     |-> Num(1) ]

_default_team_features ==
    [ team_avg_points_last_n    |-> Num(5),
      team_avg_finish_last_n    |-> Num(10),
      team_season_points        |-> Num(0),
      team_constructor_position |-> Num(5),
      team_reliability_rate     |-> Rat(9, 10) ]

\* (Season, Round) keys in ascending order, as groupby sorts its groups.
KeyLess(a, b) == a[1] < b[1] \/ (a[1] = b[1] /\ a[2] < b[2])

RECURSIVE SortKeys(_)
SortKeys(K) ==
    IF K = {} THEN <<>>
    ELSE LET m == CHOOSE a \in K : \A b \in K \ {a} : KeyLess(a, b)
         IN  <<m>> \o SortKeys(K \ {m})

\* No aggregation: one row per entry.
GroupByRace_PerEntry(df) ==
    [i \in 1..Len(df) |->
        [ Season   |-> df[i].Season,
          Round    |-> df[i].Round,
          Points   |-> df[i].Points,
          Position |-> MeanOpt(<<df[i].Position>>) ]]

\* df.groupby(["Season", "Round"]).agg({"Points": "sum", "Position": "mean"})
\*   .reset_index(): one row per race, in key order.
GroupByRace(df) ==
    LET keys == SortKeys({<<df[i].Season, df[i].Round>> : i \in 1..Len(df)})
    IN  [k \in 1..Len(keys) |->
            LET g == SelectSeq(df, LAMBDA r : <<r.Season, r.Round>> = keys[k])
            IN  [ Season   |-> keys[k][1],
                  Round    |-> keys[k][2],
                  Points   |-> SumInt(Col(g, "Points")),
                  Position |-> MeanOpt(Col(g, "Position")) ]]

compute_team_features(results, team_name, as_of_date, window) ==
    LET df0 == SelectSeq(results, LAMBDA r : r.TeamName = team_name)
        df1 == BeforeCutoff(df0, as_of_date)
    IN  IF Len(df1) = 0 THEN _default_team_features
        ELSE
          LET df         == sort_values(df1, "Date")
              team_races == GroupByRace(df)
              recent     == tail(team_races, window)
          IN  [ team_avg_points_last_n    |-> MeanInt(Col(recent, "Points")),
                team_avg_finish_last_n    |-> MeanRat(Col(recent, "Position")),
                team_season_points        |-> Num(0),
                team_constructor_position |-> Num(5),
                team_reliability_rate     |->
                    RatSub(Num(1), MeanBool(Col(df, "IsDNF"))) ]

\* ------------------------------------------------------------------------
\* FeatureEngineer: session features
\* ------------------------------------------------------------------------

\* An exception leaving a function.
Raise(kind) == [raise |-> kind]

\* v is a mapping (a record): a feature mapping, a result, or Raise(..).
Raised(v) == "raise" \in DOMAIN v

\* Lines 316-318: [value |-> Some(q)] with q the Q3 cell of the first row
\* with Position == 1, [value |-> NaN] (None) when the table has no Q3 column;
\* .iloc[0] on no row raises IndexError.
PoleTime(quali_cols, quali_rows) ==
    IF "Q3" \in quali_cols
    THEN LET pole == SelectSeq(quali_rows, LAMBDA r : r.Position = Some(1))
         IN  IF Len(pole) = 0 THEN Raise("IndexError")
             ELSE [value |-> Some(pole[1].Q3)]
    ELSE [value |-> NaN]

\* Lines 320-330.  pole_time is None (NaN here), or Some(q) with q the Q3 cell
\* of the pole row.  A missing cell (NaT, nan) is truthy, and a time minus a
\* missing time is nan.
GapToPole(quali_cols, row, pole_time) ==
    IF pole_time # NaN /\ "Q3" \in quali_cols /\ row.Q3 # NaN
    THEN IF pole_time[1] = NaN THEN NaN
         ELSE Num(row.Q3[1] - pole_time[1][1])
    ELSE Num(1)

\* Lines 333-341: the practice block; practice_laps is NaN for None.
PracticeFeatures(practice_laps, driver_id) ==
    IF practice_laps # NaN /\ driver_id # NaN /\ Len(practice_laps[1]) > 0
    THEN LET driver_practice ==
                 SelectSeq(practice_laps[1], LAMBDA r : r.Driver = driver_id[1])
         IN  IF Len(driver_practice) > 0
             THEN [ fp_best_lap_time |->
                        LET m == MinOpt(Col(driver_practice, "LapTimeSeconds"))
                        IN  IF m = NaN THEN NaN ELSE Num(m[1]),
                    fp_avg_lap_time  |-> MeanOpt(Col(driver_practice, "LapTimeSeconds")),
                    fp_lap_count     |-> Num(Len(driver_practice)) ]
             ELSE << >>
    ELSE << >>

\* quali_results is [cols |-> its column names, rows |-> its rows]; driver_id
\* is NaN for None.  The result is the feature mapping, or Raise(..).
compute_session_features(quali_results, practice_laps, driver_id) ==
    LET driver_quali ==
            IF driver_id # NaN /\ Len(quali_results.rows) > 0
            THEN SelectSeq(quali_results.rows,
                           LAMBDA r : r.Abbreviation = driver_id[1])
            ELSE <<>>
    IN  IF Len(driver_quali) > 0
        THEN LET row       == driver_quali[1]
                 pole_time == PoleTime(quali_results.cols, quali_results.rows)
             IN  IF Raised(pole_time) THEN pole_time
                 ELSE Merge(
                        [ grid_position     |->
                              IF row.Position = NaN THEN NaN ELSE Num(row.Position[1]),
                          quali_gap_to_pole |->
                              GapToPole(quali_results.cols, row, pole_time.value) ],
                        PracticeFeatures(practice_laps, driver_id))
        ELSE PracticeFeatures(practice_laps, driver_id)

\* ------------------------------------------------------------------------
\* FeatureEngineer: the race assembler
\* ------------------------------------------------------------------------

\* Series.unique(): the distinct values in order of first appearance.
RECURSIVE Unique(_)
Unique(s) ==
    IF s = <<>> THEN <<>>
    ELSE LET u == Unique(SubSeq(s, 1, Len(s) - 1))
         IN  IF \E i \in 1..Len(u) : u[i] = s[Len(s)] THEN u
             ELSE Append(u, s[Len(s)])

\* The filter with the target race itself let through.
Historical_UpToTarget(race_results, target_season, target_round) ==
    SelectSeq(race_results,
              LAMBDA r : r.Season < target_season
                         \/ (r.Season = target_season /\ r.Round <= target_round))

\* Lines 369-373: the records strictly before the target race.
Historical(race_results, target_season, target_round) ==
    SelectSeq(race_results,
              LAMBDA r : r.Season < target_season
                         \/ (r.Season = target_season /\ r.Round < target_round))

\* Lines 376-379: the records of the target race.
TargetRace(race_results, target_season, target_round) ==
    SelectSeq(race_results,
              LAMBDA r : r.Season = target_season /\ r.Round = target_round)

\* The comparison with the limit itself left out.
AtMost_Strict(position, limit) == position # NaN /\ position[1] < limit

\* Lines 423-424, driver_row["Position"] <= limit: False for a missing position.
AtMost(position, limit) == position # NaN /\ position[1] <= limit

\* Lines 392-427: one driver's row, or Raise(..) from the session features.
FeatureRow(historical, target_race, quali_results, target_season, target_round, driver) ==
    LET driver_row   == SelectSeq(target_race, LAMBDA r : r.Abbreviation = driver)[1]
        circuit_name == target_race[1].GrandPrix
        driver_features  == compute_driver_features(historical, driver, NaN, 5)
        circuit_features == compute_circuit_features(historical, circuit_name, Some(driver))
        team_features    == compute_team_features(historical, driver_row.TeamName, NaN, 5)
        session_features == compute_session_features(quali_results, NaN, Some(driver))
    IN  IF Raised(session_features) THEN session_features
        ELSE Merge(Merge(Merge(Merge(Merge(
               [ Season    |-> target_season,
                 Round     |-> target_round,
                 GrandPrix |-> circuit_name,
                 Driver    |-> driver,
                 Team      |-> driver_row.TeamName ],
               driver_features), circuit_features), team_features), session_features),
               [ Position |-> driver_row.Position,
                 Points   |-> driver_row.Points,
                 IsWinner |-> driver_row.Position # NaN /\ driver_row.Position[1] = 1,
                 IsPodium |-> AtMost(driver_row.Position, 3),
                 IsPoints |-> AtMost(driver_row.Position, 10) ])

\* logger.warning(message): one record of the module's log.
Warning(message) == [level |-> "warning", message |-> message]

\* Line 382: the message logged when the target race has no record.
NoDataMessage(target_season, target_round) ==
    "No data for " \o ToString(target_season) \o " Round " \o ToString(target_round)

\* Lines 391-429: the table of the drivers' rows, or the first exception that
\* building a row raised.
FeatureTable(feature_rows) ==
    IF \E i \in 1..Len(feature_rows) : Raised(feature_rows[i])
    THEN feature_rows[CHOOSE i \in 1..Len(feature_rows) :
                         /\ Raised(feature_rows[i])
                         /\ \A j \in 1..(i - 1) : ~Raised(feature_rows[j])]
    ELSE [rows |-> feature_rows, log |-> <<>>]

\* race_results is [cols, rows].  The result is [rows |-> the table of feature
\* rows, log |-> what was logged] (no row and one warning when the target race
\* has no record), Raise("KeyError") when the table has no Season or Round
\* column to filter on (lines 369-379), or Raise(..) when a driver's features
\* raise.
build_race_features(race_results, quali_results, target_season, target_round) ==
    IF ~({"Season", "Round"} \subseteq race_results.cols) THEN Raise("KeyError")
    ELSE
      LET historical  == Historical(race_results.rows, target_season, target_round)
          target_race == TargetRace(race_results.rows, target_season, target_round)
      IN  IF Len(target_race) = 0
          THEN [ rows |-> <<>>,
                 log  |-> <<Warning(NoDataMessage(target_season, target_round))>> ]
          ELSE
            LET drivers == Unique(Col(target_race, "Abbreviation"))
            IN  FeatureTable([i \in 1..Len(drivers) |->
                                 FeatureRow(historical, target_race, quali_results,
                                            target_season, target_round, drivers[i])])

\* ------------------------------------------------------------------------
\* FeatureEngineer: the dataset assembler
\* ------------------------------------------------------------------------

\* Sorted(values): ascending.
RECURSIVE Sorted(_)
Sorted(values) ==
    IF values = <<>> THEN <<>>
    ELSE LET m == CHOOSE i \in 1..Len(values) :
                      \A j \in 1..Len(values) : values[i] <= values[j]
         IN  <<values[m]>>
               \o Sorted(SubSeq(values, 1, m - 1) \o SubSeq(values, m + 1, Len(values)))

\* Lines 451-452: the rounds of a season that the table holds, ascending.
SeasonRounds(race_rows, season) ==
    Sorted(Unique(Col(SelectSeq(race_rows, LAMBDA r : r.Season = season), "Round")))

\* Lines 450-454: the (season, round) pairs in the order the loops visit them.
VisitedRounds(race_rows, seasons) ==
    Concat([i \in 1..Len(seasons) |->
               LET rounds == SeasonRounds(race_rows, seasons[i])
               IN  [j \in 1..Len(rounds) |-> <<seasons[i], rounds[j]>>]])

\* Lines 457-460: the qualifying rows of one race, or Raise("KeyError") when
\* the qualifying table has no Season or Round column.
RaceQuali(quali_results, season, round_num) ==
    IF ~({"Season", "Round"} \subseteq quali_results.cols) THEN Raise("KeyError")
    ELSE [ cols |-> quali_results.cols,
           rows |-> SelectSeq(quali_results.rows,
                              LAMBDA q : q.Season = season /\ q.Round = round_num) ]

\* An except clause that lets every exception but a KeyError through.
IsException_KeyErrorOnly(e) == e.raise = "KeyError"

\* Line 469, "except Exception": every exception the feature functions raise
\* (KeyError, IndexError, ValueError) is an Exception.
IsException(e) == e.raise \in {"KeyError", "IndexError", "ValueError"}

\* Lines 470-472: the message logged for a round that failed; the text of
\* the exception is kept as its kind.
CouldNotBuildMessage(season, round_num, e) ==
    "Could not build features for " \o ToString(season) \o " R"
        \o ToString(round_num) \o ": " \o e.raise

\* Lines 456-467, the body of one round's try statement: the per-race table,
\* or the exception raised in it.
TryRound(race_results, quali_results, season, round_num) ==
    LET race_quali == RaceQuali(quali_results, season, round_num)
    IN  IF Raised(race_quali) THEN race_quali
        ELSE build_race_features(race_results, race_quali, season, round_num)

\* Lines 466-472: what one round appends and logs, given the outcome of its
\* try body; an exception the except clause does not catch stays raised.
ExceptRound(race_features, season, round_num) ==
    IF Raised(race_features) /\ IsException(race_features)
    THEN [ rows |-> <<>>,
           log  |-> <<Warning(CouldNotBuildMessage(season, round_num,
                                                   race_features))>> ]
    ELSE race_features

\* Lines 455-472: one round's try statement.
RoundFeatures(race_results, quali_results, season, round_num) ==
    ExceptRound(TryRound(race_results, quali_results, season, round_num),
                season, round_num)

\* Lines 466-467 in the loop: the rows and the log after one more round.
AfterRound(before, part) ==
    IF Raised(before) THEN before
    ELSE IF Raised(part) THEN part
    ELSE [rows |-> before.rows \o part.rows, log |-> before.log \o part.log]

\* Lines 450-472: the loops over the visited rounds, one after another.
RECURSIVE CollectRounds(_, _, _)
CollectRounds(race_results, quali_results, visited) ==
    IF visited = <<>> THEN [rows |-> <<>>, log |-> <<>>]
    ELSE AfterRound(CollectRounds(race_results, quali_results,
                                  SubSeq(visited, 1, Len(visited) - 1)),
                    RoundFeatures(race_results, quali_results,
                                  visited[Len(visited)][1], visited[Len(visited)][2]))

\* Lines 431-477.  race_results and quali_results are [cols, rows].  The
\* result is [rows |-> the rows of the per-race tables, one table after
\* another (no row when none was appended), log |-> what was logged], or
\* Raise("KeyError") when a season is requested from a table without a Season
\* or Round column (lines 451-452, outside the try statement).
build_training_dataset(race_results, quali_results, seasons) ==
    IF seasons # <<>> /\ ~({"Season", "Round"} \subseteq race_results.cols)
    THEN Raise("KeyError")
    ELSE CollectRounds(race_results, quali_results,
                       VisitedRounds(race_results.rows, seasons))

\* ------------------------------------------------------------------------
\* FeatureEngineer: tire stints and degradation
\* ------------------------------------------------------------------------

\* One cell of Series != Series.shift(): a missing value (also the one shift
\* puts before the first row) compares unequal to everything, itself included.
Differs(a, b) == a = NaN \/ b = NaN \/ a # b

\* Series.cumsum() of a boolean column.
RECURSIVE CumSum(_)
CumSum(flags) ==
    IF flags = <<>> THEN <<>>
    ELSE LET before == CumSum(SubSeq(flags, 1, Len(flags) - 1))
             last   == IF before = <<>> THEN 0 ELSE before[Len(before)]
         IN  Append(before, last + (IF flags[Len(flags)] THEN 1 ELSE 0))

\* Lines 546-551: the stint number of every lap of the sorted laps.
StintNumbers(cols, driver_laps) ==
    IF "Compound" \in cols
    THEN CumSum([i \in 1..Len(driver_laps) |->
                    Differs(driver_laps[i].Compound,
                            IF i = 1 THEN NaN ELSE driver_laps[i - 1].Compound)])
    ELSE [i \in 1..Len(driver_laps) |-> 1]

\* groupby(key).cumcount(): how many earlier rows share the row's key.
CumCount(keys) ==
    [i \in 1..Len(keys) |-> Cardinality({j \in 1..(i - 1) : keys[j] = keys[i]})]

\* Lines 538-554: the driver's laps in lap order with StintNumber and TireAge.
StintLaps(laps_table, driver_id) ==
    LET own         == SelectSeq(laps_table.rows, LAMBDA r : r.Driver = driver_id)
        driver_laps == sort_values(own, "LapNumber")
        stints      == StintNumbers(laps_table.cols, driver_laps)
        counts      == CumCount(stints)
    IN  [i \in 1..Len(driver_laps) |->
            Merge(driver_laps[i],
                  [StintNumber |-> stints[i], TireAge |-> counts[i] + 1])]

\* np.polyfit(x, y, 1)[0]: the least-squares slope of y against x, exactly.
PolyfitSlope(x, y) ==
    LET n   == Len(x)
        sx  == SumInt(x)
        sy  == SumInt(y)
        sxy == SumInt([i \in 1..n |-> x[i] * y[i]])
        sxx == SumInt([i \in 1..n |-> x[i] * x[i]])
    IN  Rat(n * sxy - sx * sy, n * sxx - sx * sx)

\* The ages renumbered over the laps that enter the fit.
FitAges_Renumbered(valid) == [i \in 1..Len(valid) |-> i]

\* Line 565 under the mask of line 569: the ages of the laps with a lap time.
FitAges(valid) == Col(valid, "TireAge")

\* The least number of laps a stint needs (lines 560 and 570).
MinStintLaps == 3

\* A stint is fitted from two laps on.
EnoughLaps_Two(n) == n >= 2

EnoughLaps(n) == n >= MinStintLaps

\* Lines 560-580: the row of one stint, or no row.
StintFeatures(cols, stint, stint_df) ==
    IF ~EnoughLaps(Len(stint_df)) THEN <<>>
    ELSE IF "LapTimeSeconds" \notin cols THEN <<>>
    ELSE
      LET valid == SelectSeq(stint_df, LAMBDA r : r.LapTimeSeconds # NaN)
          x     == FitAges(valid)
          y     == Present(Col(valid, "LapTimeSeconds"))
      IN  IF ~EnoughLaps(Len(valid)) THEN <<>>
          ELSE << [ StintNumber     |-> stint,
                    Compound        |-> IF "Compound" \in cols
                                        THEN stint_df[1].Compound
                                        ELSE Some("Unknown"),
                    StintLength     |-> Len(stint_df),
                    DegradationRate |-> PolyfitSlope(x, y),
                    AvgLapTime      |-> MeanInt(y),
                    BestLapTime     |-> MinOpt(Col(valid, "LapTimeSeconds"))[1] ] >>

\* [rows |-> one row per fitted stint, in stint order]; no row at all when the
\* driver has no lap.  laps_table is [cols, rows].
compute_tire_features(laps_table, driver_id) ==
    LET driver_laps == StintLaps(laps_table, driver_id)
        last        == IF Len(driver_laps) = 0 THEN 0
                       ELSE driver_laps[Len(driver_laps)].StintNumber
    IN  [rows |->
            Concat([stint \in 1..last |->
                       StintFeatures(laps_table.cols, stint,
                                     SelectSeq(driver_laps,
                                               LAMBDA r : r.StintNumber = stint))])]

\* ------------------------------------------------------------------------
\* DataProcessor: validation
\* ------------------------------------------------------------------------

\* str(list) of Python for a list of column names: ['A', 'B'].
RECURSIVE JoinNames(_)
JoinNames(names) ==
    IF Len(names) = 0 THEN ""
    ELSE IF Len(names) = 1 THEN "'" \o names[1] \o "'"
    ELSE "'" \o names[1] \o "', " \o JoinNames(Tail(names))

ListRepr(names) == "[" \o JoinNames(names) \o "]"

\* Line 331 with <= for <.
TooFewRows_Inclusive(n, min_rows) == n <= min_rows

\* Line 331: len(df) < min_rows.
TooFewRows(n, min_rows) == n < min_rows

\* Line 346: df.isnull().sum() for one column.
NullCount(frame, c) ==
    Cardinality({i \in 1..Len(frame.rows) : frame.rows[i][c] = NaN})

\* Line 347: null_counts > len(df) * 0.1.
HighNull(frame, c) == 10 * NullCount(frame, c) > Len(frame.rows)

\* Line 358: the dtype pandas gives a numeric column.
DType(frame, c) ==
    IF Len(frame.rows) = 0 THEN "object"
    ELSE IF NullCount(frame, c) > 0 THEN "float64"
    ELSE "int64"

\* frame is [columns |-> the column names in order, rows |-> the rows].
validate_data(frame, required_columns, min_rows) ==
    LET colset         == {frame.columns[i] : i \in 1..Len(frame.columns)}
        row_errors     == IF TooFewRows(Len(frame.rows), min_rows)
                          THEN << "Insufficient data: " \o ToString(Len(frame.rows))
                                  \o " rows (need " \o ToString(min_rows) \o ")" >>
                          ELSE <<>>
        missing_cols   == SelectSeq(required_columns, LAMBDA c : c \notin colset)
        col_errors     == IF Len(missing_cols) > 0
                          THEN << "Missing columns: " \o ListRepr(missing_cols) >>
                          ELSE <<>>
        high_null_cols == SelectSeq(frame.columns, LAMBDA c : HighNull(frame, c))
    IN  [ is_valid |-> ~TooFewRows(Len(frame.rows), min_rows) /\ Len(missing_cols) = 0,
          errors   |-> row_errors \o col_errors,
          warnings |-> IF Len(high_null_cols) > 0
                       THEN << "High null percentage in: " \o ListRepr(high_null_cols) >>
                       ELSE <<>>,
          stats    |-> [ row_count    |-> Len(frame.rows),
                         column_count |-> Len(frame.columns),
                         null_counts  |-> [c \in colset |-> NullCount(frame, c)],
                         dtypes       |-> [c \in colset |-> DType(frame, c)] ] ]

\* ------------------------------------------------------------------------
\* DataProcessor: the scaler registry
\* ------------------------------------------------------------------------
\* A table a method works on is [owner, frame]: owner is "caller" while the
\* name still refers to the caller's object and "local" once it refers to an
\* object the method made; an assignment into the table changes the caller's
\* object in the first case only.

\* The name bound to the caller's own object.
Copy_Shared(frame) == [owner |-> "caller", frame |-> frame]

\* df.copy(): a new object with the same cells.
Copy(frame) == [owner |-> "local", frame |-> frame]

\* df[...] = ...: the object the name refers to gets the new cells.
Assign(work, frame) == [owner |-> work.owner, frame |-> frame]

\* The caller's table once the method is done with its working table.
CallerAfter(frame, work) == IF work.owner = "caller" THEN work.frame ELSE frame

ColumnSet(frame) == {frame.columns[i] : i \in 1..Len(frame.columns)}

\* [c for c in columns if c in df.columns]
ValidCols(frame, columns) == SelectSeq(columns, LAMBDA c : c \in ColumnSet(frame))

\* df[cols].fillna(0): the columns cols, every missing cell replaced by 0.
FillNa(frame, cols) ==
    [ columns |-> cols,
      rows    |-> [i \in 1..Len(frame.rows) |->
                     [c \in {cols[k] : k \in 1..Len(cols)} |->
                        IF frame.rows[i][c] = NaN THEN Some(0) ELSE frame.rows[i][c]]] ]

\* df[cols] handed to transform as it is.
TransformInput_Unfilled(frame, cols) ==
    [ columns |-> cols,
      rows    |-> [i \in 1..Len(frame.rows) |->
                     [c \in {cols[k] : k \in 1..Len(cols)} |-> frame.rows[i][c]]] ]

\* Line 163: what fit_scaler hands to the scaler.
FitInput(frame, cols) == FillNa(frame, cols)

\* Line 196: what transform_scaler hands to the scaler.
TransformInput(frame, cols) == FillNa(frame, cols)

\* The error with the message the caller sees.
RaiseValueError(message) == [raise |-> "ValueError", message |-> message]

\* StandardScaler.fit: per column the mean and the square of the scale (the
\* population variance, 1 when the variance is 0).
StandardScalerFit(frame, valid_cols) ==
    LET n == Len(frame.rows)
        x(c) == [i \in 1..n |-> frame.rows[i][c][1]]
        sx(c) == SumInt(x(c))
        sxx(c) == SumInt([i \in 1..n |-> x(c)[i] * x(c)[i]])
        var(c) == Rat(n * sxx(c) - sx(c) * sx(c), n * n)
    IN  [ mean   |-> [c \in {valid_cols[i] : i \in 1..Len(valid_cols)} |-> Rat(sx(c), n)],
          scale2 |-> [c \in {valid_cols[i] : i \in 1..Len(valid_cols)} |->
                        IF var(c)[1] = 0 THEN Num(1) ELSE var(c)],
          features |-> valid_cols ]

\* (x - mean) / scale, kept exact as the numerator and the square of the scale.
Standardized(x, mean, scale2) ==
    LET num == RatSub(Num(x), mean)
    IN  [num |-> num, scale2 |-> IF num[1] = 0 THEN Num(1) ELSE scale2]

\* StandardScaler.transform: every cell standardized, a missing one left
\* missing.
StandardScalerTransform(scaler, input) ==
    [ columns |-> input.columns,
      rows    |-> [i \in 1..Len(input.rows) |->
                     [c \in ColumnSet(input) |->
                        IF input.rows[i][c] = NaN THEN NaN
                        ELSE Some(Standardized(input.rows[i][c][1],
                                               scaler.mean[c], scaler.scale2[c]))]] ]

\* df[cols] = values: the columns cols replaced, the other columns kept.
SetColumns(frame, cols, values) ==
    [ columns |-> frame.columns,
      rows    |-> [i \in 1..Len(frame.rows) |->
                     [c \in ColumnSet(frame) |->
                        IF c \in ColumnSet(values) THEN values.rows[i][c]
                        ELSE frame.rows[i][c]]] ]

\* What sklearn refuses: no sample, or other features than the fitted ones.
Refused(scaler_features, frame, valid_cols) ==
    IF Len(frame.rows) = 0
    THEN RaiseValueError("Found array with 0 sample(s)")
    ELSE IF valid_cols # scaler_features
    THEN RaiseValueError("X has " \o ToString(Len(valid_cols))
                         \o " features, but StandardScaler is expecting "
                         \o ToString(Len(scaler_features)) \o " features")
    ELSE [ok |-> TRUE]

\* [ret, scalers, df]: what the call returns or raises, the registry and the
\* caller's table after it.
fit_scaler(registry, frame, columns, scaler_name) ==
    LET work       == Copy(frame)
        valid_cols == ValidCols(work.frame, columns)
        input      == FitInput(work.frame, valid_cols)
        scaler     == StandardScalerFit(input, valid_cols)
        refused    == Refused(valid_cols, work.frame, valid_cols)
        scaled     == Assign(work, SetColumns(work.frame, valid_cols,
                                              StandardScalerTransform(scaler, input)))
    IN  IF Len(valid_cols) = 0
        THEN [ret |-> work.frame, scalers |-> registry, df |-> CallerAfter(frame, work)]
        ELSE IF Raised(refused)
        THEN [ret |-> refused, scalers |-> registry, df |-> CallerAfter(frame, work)]
        ELSE [ ret     |-> scaled.frame,
               scalers |-> [n \in DOMAIN registry \cup {scaler_name} |->
                              IF n = scaler_name
                              THEN [scaler |-> scaler, columns |-> valid_cols]
                              ELSE registry[n]],
               df      |-> CallerAfter(frame, scaled) ]

\* The table handed back as it came.
ScalerNotFound_ReturnsTable(frame, scaler_name) == frame

\* Line 188: raise ValueError(f"Scaler '{scaler_name}' not found").
ScalerNotFound(frame, scaler_name) ==
    RaiseValueError("Scaler '" \o scaler_name \o "' not found")

transform_scaler(registry, frame, scaler_name) ==
    IF scaler_name \notin DOMAIN registry
    THEN [ ret     |-> ScalerNotFound(frame, scaler_name),
           scalers |-> registry,
           df      |-> frame ]
    ELSE
      LET work       == Copy(frame)
          scaler     == registry[scaler_name].scaler
          columns    == registry[scaler_name].columns
          valid_cols == ValidCols(work.frame, columns)
          refused    == Refused(scaler.features, work.frame, valid_cols)
          input      == TransformInput(work.frame, valid_cols)
          scaled     == Assign(work, SetColumns(work.frame, valid_cols,
                                                StandardScalerTransform(scaler, input)))
      IN  IF Raised(refused)
          THEN [ret |-> refused, scalers |-> registry, df |-> CallerAfter(frame, work)]
          ELSE [ret |-> scaled.frame, scalers |-> registry,
                df |-> CallerAfter(frame, scaled)]

\* ------------------------------------------------------------------------
\* DataProcessor: cleaning lap times
\* ------------------------------------------------------------------------
\* A cell of a raw frame is missing or holds [kind, value, text]: a duration
\* (kind "timedelta", value in seconds), a number, or a text.  A raw frame
\* also carries the dtype of each column.

Timedelta(seconds) == [kind |-> "timedelta", value |-> seconds, text |-> ""]

Number(value) == [kind |-> "number", value |-> value, text |-> ""]

Text(text) == [kind |-> "text", value |-> 0, text |-> text]

\* .dt.total_seconds() on one cell.
TotalSeconds(cell) == IF cell = NaN THEN NaN ELSE Some(Number(cell[1].value))

\* float(text) for the texts of the tables below; no number otherwise.
ParseNumber(text) ==
    IF text = "75" THEN Some(Number(75))
    ELSE IF text = "200" THEN Some(Number(200))
    ELSE IF text = "3" THEN Some(Number(3))
    ELSE NaN

\* pd.to_numeric(.., errors="coerce") on one cell.
ToNumeric(cell) ==
    IF cell = NaN THEN NaN
    ELSE IF cell[1].kind = "text" THEN ParseNumber(cell[1].text)
    ELSE Some(Number(cell[1].value))

\* pd.api.types.is_timedelta64_any_dtype(df[c]).
IsTimedelta(frame, c) == frame.dtypes[c] = "timedelta64"

\* df[c] = values: the column is replaced, or added after the others.
WithColumn(frame, c, values, dtype) ==
    [ columns |-> IF c \in ColumnSet(frame) THEN frame.columns
                  ELSE Append(frame.columns, c),
      dtypes  |-> [d \in ColumnSet(frame) \cup {c} |->
                     IF d = c THEN dtype ELSE frame.dtypes[d]],
      rows    |-> [i \in 1..Len(frame.rows) |->
                     [d \in ColumnSet(frame) \cup {c} |->
                        IF d = c THEN values[i] ELSE frame.rows[i][d]]] ]

\* df = df[mask]: a new table of the rows whose mask is true.
Filter(work, mask) ==
    LET kept == SelectSeq([i \in 1..Len(mask) |-> i], LAMBDA i : mask[i])
    IN  [ owner |-> "local",
          frame |-> [work.frame EXCEPT
                       !.rows = [k \in 1..Len(kept) |-> work.frame.rows[kept[k]]]] ]

DefaultMinLapTime == 60

DefaultMaxLapTime == 180

\* The range with its ends left out.
InRange_Exclusive(cell, min_lap_time, max_lap_time) ==
    /\ cell # NaN
    /\ cell[1].value > min_lap_time
    /\ cell[1].value < max_lap_time

\* Lines 72-73: a missing time passes neither comparison.
InRange(cell, min_lap_time, max_lap_time) ==
    /\ cell # NaN
    /\ cell[1].value >= min_lap_time
    /\ cell[1].value <= max_lap_time

SectorCols == <<"Sector1Time", "Sector2Time", "Sector3Time">>

\* Lines 88-92: the seconds column of every sector column that holds durations.
RECURSIVE WithSectorSeconds(_, _)
WithSectorSeconds(work, cols) ==
    IF Len(cols) = 0 THEN work
    ELSE LET c    == Head(cols)
             next == IF c \in ColumnSet(work.frame) /\ IsTimedelta(work.frame, c)
                     THEN Assign(work,
                                 WithColumn(work.frame, c \o "Seconds",
                                            [i \in 1..Len(work.frame.rows) |->
                                               TotalSeconds(work.frame.rows[i][c])],
                                            "float64"))
                     ELSE work
         IN  WithSectorSeconds(next, Tail(cols))

\* [ret, laps]: the cleaned table and the caller's table after the call.
clean_lap_times(laps_frame, remove_outliers, min_lap_time, max_lap_time) ==
    LET copied    == Copy(laps_frame)
        converted ==
            IF "LapTime" \in ColumnSet(copied.frame)
            THEN Assign(copied,
                        WithColumn(copied.frame, "LapTimeSeconds",
                                   [i \in 1..Len(copied.frame.rows) |->
                                      IF IsTimedelta(copied.frame, "LapTime")
                                      THEN TotalSeconds(copied.frame.rows[i]["LapTime"])
                                      ELSE ToNumeric(copied.frame.rows[i]["LapTime"])],
                                   "float64"))
            ELSE copied
        ranged    ==
            IF remove_outliers /\ "LapTimeSeconds" \in ColumnSet(converted.frame)
            THEN Filter(converted,
                        [i \in 1..Len(converted.frame.rows) |->
                           InRange(converted.frame.rows[i]["LapTimeSeconds"],
                                   min_lap_time, max_lap_time)])
            ELSE converted
        no_pit_in ==
            IF "PitInTime" \in ColumnSet(ranged.frame)
            THEN Filter(ranged, [i \in 1..Len(ranged.frame.rows) |->
                                   ranged.frame.rows[i]["PitInTime"] = NaN])
            ELSE ranged
        no_pit    ==
            IF "PitOutTime" \in ColumnSet(no_pit_in.frame)
            THEN Filter(no_pit_in, [i \in 1..Len(no_pit_in.frame.rows) |->
                                      no_pit_in.frame.rows[i]["PitOutTime"] = NaN])
            ELSE no_pit_in
        final     == WithSectorSeconds(no_pit, SectorCols)
    IN  [ ret  |-> final.frame,
          laps |-> CallerAfter(CallerAfter(laps_frame, converted), final) ]

\* ------------------------------------------------------------------------
\* DataProcessor: processing race results
\* ------------------------------------------------------------------------

Bool(b) == [kind |-> "bool", value |-> IF b THEN 1 ELSE 0, text |-> ""]

\* Line 122: the difference of two numeric cells, missing when either is.
Minus(a, b) ==
    IF a = NaN \/ b = NaN THEN NaN ELSE Some(Number(a[1].value - b[1].value))

\* Every status taken as finished.
IsFinished_Always(status) == TRUE

\* Line 126: df["Status"] == "Finished"; a missing status is not equal.
IsFinished(status) ==
    status # NaN /\ status[1].kind = "text" /\ status[1].text = "Finished"

\* Line 131: .fillna(0) on one numeric cell.
FillZero(cell) == IF cell = NaN THEN Some(Number(0)) ELSE cell

\* Lines 111-118: pd.to_numeric(df[c], errors="coerce") when the table has c.
NumericColumn(work, c) ==
    IF c \in ColumnSet(work.frame)
    THEN Assign(work,
                WithColumn(work.frame, c,
                           [i \in 1..Len(work.frame.rows) |->
                              ToNumeric(work.frame.rows[i][c])],
                           "float64"))
    ELSE work

\* Lines 121-122: PositionsGained = GridPosition - Position.
PositionsGainedColumn(work) ==
    IF {"Position", "GridPosition"} \subseteq ColumnSet(work.frame)
    THEN Assign(work,
                WithColumn(work.frame, "PositionsGained",
                           [i \in 1..Len(work.frame.rows) |->
                              Minus(work.frame.rows[i]["GridPosition"],
                                    work.frame.rows[i]["Position"])],
                           "float64"))
    ELSE work

\* Lines 125-126: IsFinished = (Status == "Finished").
IsFinishedColumn(work) ==
    IF "Status" \in ColumnSet(work.frame)
    THEN Assign(work,
                WithColumn(work.frame, "IsFinished",
                           [i \in 1..Len(work.frame.rows) |->
                              Some(Bool(IsFinished(work.frame.rows[i]["Status"])))],
                           "bool"))
    ELSE work

\* Lines 125-127: IsDNF = ~IsFinished.
IsDNFColumn(work) ==
    IF "Status" \in ColumnSet(work.frame)
    THEN Assign(work,
                WithColumn(work.frame, "IsDNF",
                           [i \in 1..Len(work.frame.rows) |->
                              Some(Bool(work.frame.rows[i]["IsFinished"][1].value = 0))],
                           "bool"))
    ELSE work

\* Lines 130-131: Points to numeric, a missing value becoming 0.
PointsColumn(work) ==
    IF "Points" \in ColumnSet(work.frame)
    THEN Assign(work,
                WithColumn(work.frame, "Points",
                           [i \in 1..Len(work.frame.rows) |->
                              FillZero(ToNumeric(work.frame.rows[i]["Points"]))],
                           "float64"))
    ELSE work

\* [ret, df]: the processed table and the caller's table after the call.
process_race_results(results) ==
    LET processed ==
            PointsColumn(IsDNFColumn(IsFinishedColumn(PositionsGainedColumn(
                NumericColumn(NumericColumn(Copy(results), "Position"),
                              "GridPosition")))))
    IN  [ret |-> processed.frame, df |-> CallerAfter(results, processed)]

\* ------------------------------------------------------------------------
\* DataProcessor: rolling driver statistics
\* ------------------------------------------------------------------------

\* The driver ids in the order string comparison gives them.
AlphabeticalIds == <<"HAM", "VER">>

IdRank(id) == CHOOSE i \in 1..Len(AlphabeticalIds) : AlphabeticalIds[i] = id

\* Row a does not come after row b under the keys ["Abbreviation", "Date"].
NotAfter(a, b) ==
    \/ IdRank(a.Abbreviation) < IdRank(b.Abbreviation)
    \/ (a.Abbreviation = b.Abbreviation /\ a.Date <= b.Date)

RECURSIVE InsertByDriverDate(_, _)
InsertByDriverDate(s, r) ==
    IF s = <<>> THEN <<r>>
    ELSE IF NotAfter(s[Len(s)], r) THEN Append(s, r)
    ELSE Append(InsertByDriverDate(SubSeq(s, 1, Len(s) - 1), r), s[Len(s)])

\* results.sort_values(["Abbreviation", "Date"]): a sort on several keys is a
\* stable one (lexsort).
RECURSIVE SortByDriverDate(_)
SortByDriverDate(t) ==
    IF t = <<>> THEN <<>>
    ELSE InsertByDriverDate(SortByDriverDate(SubSeq(t, 1, Len(t) - 1)), t[Len(t)])

\* A table with its index labels made a column: the label of a row is its
\* place in the caller's table.
WithIndex(t) == [i \in 1..Len(t) |-> Merge(t[i], [index |-> i])]

\* col.rolling(window, min_periods=1): at row i, the rows
\* max(1, i - window + 1) .. i, which the statistic then reduces.
Rolling(col, window) ==
    [i \in 1..Len(col) |->
        SubSeq(col, IF i - window + 1 < 1 THEN 1 ELSE i - window + 1, i)]

CountWins(s) == Num(CountEq(s, 1))

CountPodiums(s) == Num(CountLe(s, 3))

SumPoints(s) == Num(SumInt(s))

CountTrue(s) == Num(Len(SelectSeq(s, LAMBDA b : b)))

\* The whole sorted table taken as one group.
DriverGroups_Whole(sorted) == <<sorted>>

\* df.groupby("Abbreviation"): one group per driver, in key order, the rows of
\* a group in the order of the sorted table.
DriverGroups(sorted) ==
    LET ids == SelectSeq(AlphabeticalIds,
                         LAMBDA d : \E i \in 1..Len(sorted) : sorted[i].Abbreviation = d)
    IN  [k \in 1..Len(ids) |->
            SelectSeq(sorted, LAMBDA r : r.Abbreviation = ids[k])]

\* Lines 386-393: the statistics of one group, labelled like its rows.
GroupStats(x, window) ==
    LET position == Rolling(Col(x, "Position"), window)
        grid     == Rolling(Col(x, "GridPosition"), window)
        points   == Rolling(Col(x, "Points"), window)
        dnf      == Rolling(Col(x, "IsDNF"), window)
    IN  [i \in 1..Len(x) |->
            [ index          |-> x[i].index,
              AvgFinishLast5 |-> MeanOpt(position[i]),
              AvgGridLast5   |-> MeanOpt(grid[i]),
              WinsLast5      |-> CountWins(position[i]),
              PodiumsLast5   |-> CountPodiums(position[i]),
              PointsLast5    |-> SumPoints(points[i]),
              DNFsLast5      |-> CountTrue(dnf[i]) ]]

\* [rows |-> the sorted table with the six rolling columns], the statistics
\* joined to the rows on the index label (pd.concat(axis=1)); the group key
\* that apply puts in front of the labels is dropped by reset_index(level=0).
compute_driver_stats(results, window) ==
    LET sorted == SortByDriverDate(WithIndex(results))
        groups == DriverGroups(sorted)
        stats  == Concat([k \in 1..Len(groups) |-> GroupStats(groups[k], window)])
    IN  [rows |->
            [i \in 1..Len(sorted) |->
                Merge(sorted[i],
                      stats[CHOOSE j \in 1..Len(stats) :
                                stats[j].index = sorted[i].index])]]

\* ------------------------------------------------------------------------
\* State
\* ------------------------------------------------------------------------

VARIABLES
    race_results,   \* the result table the caller holds (loader.load_race_results)
    laps,           \* the lap table the caller holds: [cols, rows]
    df,             \* the table handed to the processor: [columns, rows]
    scalers,        \* self.scalers: scaler name -> [scaler, columns]
    call,           \* the call in progress or returned: [op |-> .., arguments]
    ret             \* what the call returned; <<>> before any call

vars == <<race_results, laps, df, scalers, call, ret>>

NoCall == [op |-> "none"]

NoTable == [cols |-> {}, rows |-> <<>>]

\* A frame without rows or columns, its columns kept in order.
NoFrame == [columns |-> <<>>, rows |-> <<>>]

\* self.scalers = {} (DataProcessor.__init__).
NoScalers == [n \in {} |-> NaN]

\* ------------------------------------------------------------------------
\* Result tables
\* ------------------------------------------------------------------------

MaxRows == 3

Seasons == {1, 2}

Rounds == {1, 2}

Drivers == {"VER", "HAM"}

Teams == {"RBR", "MER"}

Positions == {Some(1), NaN}

\* loader.py:198: the event name of a round.
GrandPrixOf(round) == IF round = 1 THEN "Monza" ELSE "Spa"

Circuits == {GrandPrixOf(r) : r \in Rounds}

\* loader.py:200: the event date, one per (season, round), ascending.
DateOf(season, round) == (season - 1) * Cardinality(Rounds) + round

Dates == {DateOf(s, r) : s \in Seasons, r \in Rounds}

\* The points a finishing position scores.
PointsFor(position) ==
    CASE position = Some(1) -> 25
      [] position = Some(2) -> 18
      [] position = Some(3) -> 15
      [] position = Some(4) -> 12
      [] OTHER -> 0

\* A row of the processed result table.  The starting position is 3; the
\* points, the DNF flag and PositionsGained = GridPosition - Position follow
\* the finishing position (missing for a retirement).
ResultRow(season, round, driver, team, position) ==
    [ Season          |-> season,
      Round           |-> round,
      GrandPrix       |-> GrandPrixOf(round),
      Abbreviation    |-> driver,
      TeamName        |-> team,
      Position        |-> position,
      GridPosition    |-> Some(3),
      Points          |-> PointsFor(position),
      IsDNF           |-> position = NaN,
      PositionsGained |-> IF position = NaN THEN NaN ELSE Some(3 - position[1]),
      Date            |-> DateOf(season, round) ]

ResultRows ==
    { ResultRow(s, r, d, t, p) :
          s \in Seasons, r \in Rounds, d \in Drivers, t \in Teams, p \in Positions }

SameEntry(a, b) ==
    a.Season = b.Season /\ a.Round = b.Round /\ a.Abbreviation = b.Abbreviation

\* What load_race_results builds: races in schedule order, one row per
\* (season, round, driver).
WellFormed(t) ==
    /\ \A i \in 1..(Len(t) - 1) : t[i].Date <= t[i + 1].Date
    /\ \A i, j \in 1..Len(t) : SameEntry(t[i], t[j]) => i = j

InsertAt(t, i, row) == SubSeq(t, 1, i - 1) \o <<row>> \o SubSeq(t, i, Len(t))

RemoveAt(t, i) == SubSeq(t, 1, i - 1) \o SubSeq(t, i + 1, Len(t))

\* ------------------------------------------------------------------------
\* The caller's data changes between calls
\* ------------------------------------------------------------------------

AddRecord(row, i) ==
    /\ call = NoCall
    /\ Len(race_results) < MaxRows
    /\ i \in 1..(Len(race_results) + 1)
    /\ WellFormed(InsertAt(race_results, i, row))
    /\ race_results' = InsertAt(race_results, i, row)
    /\ UNCHANGED <<laps, df, scalers, call, ret>>

AlterRecord(i, row) ==
    /\ call = NoCall
    /\ i \in 1..Len(race_results)
    /\ row # race_results[i]
    /\ WellFormed([race_results EXCEPT ![i] = row])
    /\ race_results' = [race_results EXCEPT ![i] = row]
    /\ UNCHANGED <<laps, df, scalers, call, ret>>

RemoveRecord(i) ==
    /\ call = NoCall
    /\ i \in 1..Len(race_results)
    /\ race_results' = RemoveAt(race_results, i)
    /\ UNCHANGED <<laps, df, scalers, call, ret>>

Edit ==
    \/ \E row \in ResultRows, i \in 1..MaxRows : AddRecord(row, i)
    \/ \E row \in ResultRows, i \in 1..MaxRows : AlterRecord(i, row)
    \/ \E i \in 1..MaxRows : RemoveRecord(i)

\* ------------------------------------------------------------------------
\* Qualifying tables
\* ------------------------------------------------------------------------

QualiRow(driver, position, q3) ==
    [ Abbreviation |-> driver, Position |-> position, Q3 |-> q3 ]

QualiCols == {"Abbreviation", "Position", "Q3"}

\* The qualifying tables handed to the race assembler: none, both drivers,
\* one driver only, one without the pole sitter, one without session times.
RaceQualis ==
    { NoTable,
      [cols |-> QualiCols,
       rows |-> <<QualiRow("VER", Some(1), Some(80)), QualiRow("HAM", Some(2), Some(81))>>],
      [cols |-> QualiCols,
       rows |-> <<QualiRow("HAM", Some(1), Some(80))>>],
      [cols |-> QualiCols,
       rows |-> <<QualiRow("VER", Some(2), Some(81))>>],
      [cols |-> QualiCols \ {"Q3"},
       rows |-> <<QualiRow("VER", Some(1), NaN)>>] }

\* ------------------------------------------------------------------------
\* The race assembler as an operation
\* ------------------------------------------------------------------------

\* The columns of the processed result table.
ResultCols == DOMAIN ResultRow(1, 1, "VER", "RBR", NaN)

ResultTable(rows) == [cols |-> ResultCols, rows |-> rows]

\* The tables the caller can hold for its records: a table without a record
\* is either one that still carries the result columns or the column-less
\* pd.DataFrame() load_race_results returns when no session was loaded.
HeldTables(rows) ==
    IF rows = <<>> THEN {ResultTable(<<>>), NoTable} ELSE {ResultTable(rows)}

BuildRaceFeatures(table, quali_results, target_season, target_round) ==
    /\ call = NoCall
    /\ call' = [ op            |-> "build_race_features",
                 columns       |-> table.cols,
                 quali_results |-> quali_results,
                 target_season |-> target_season,
                 target_round  |-> target_round ]
    /\ ret' = build_race_features(table, quali_results,
                                  target_season, target_round)
    /\ UNCHANGED <<race_results, laps, df, scalers>>

Init ==
    /\ race_results = <<>>
    /\ laps = NoTable
    /\ df = NoFrame
    /\ scalers = NoScalers
    /\ call = NoCall
    /\ ret = <<>>

Next ==
    \/ Edit
    \/ \E table \in HeldTables(race_results), q \in RaceQualis,
          s \in Seasons, r \in Rounds : BuildRaceFeatures(table, q, s, r)

Spec == Init /\ [][Next]_vars

\* ------------------------------------------------------------------------
\* The dataset assembler as an operation
\* ------------------------------------------------------------------------

\* loader.py:246-250: a qualifying row with the race it belongs to.
DatasetQualiRow(season, round, driver, position, q3) ==
    Merge(QualiRow(driver, position, q3), [Season |-> season, Round |-> round])

DatasetQualiCols == QualiCols \cup {"Season", "Round"}

\* The races in schedule order.
Schedule == SortKeys(Seasons \X Rounds)

\* A qualifying table with one row per race, for the driver VER: second
\* behind a driver the table does not hold in the races of no_pole, on pole
\* in the others.
QualiWithout(no_pole) ==
    [ cols |-> DatasetQualiCols,
      rows |-> [i \in 1..Len(Schedule) |->
                   IF Schedule[i] \in no_pole
                   THEN DatasetQualiRow(Schedule[i][1], Schedule[i][2],
                                        "VER", Some(2), Some(81))
                   ELSE DatasetQualiRow(Schedule[i][1], Schedule[i][2],
                                        "VER", Some(1), Some(80))] ]

\* The qualifying tables handed to the dataset assembler: the column-less
\* table load_qualifying_results returns when it loaded nothing, and tables
\* in which no race, the first race or the second race lacks the pole row.
DatasetQualis ==
    { NoTable } \cup { QualiWithout(no_pole) : no_pole \in { {}, {<<1, 1>>}, {<<1, 2>>} } }

\* The lists of requested seasons: none, one, several in either order, and
\* one season named twice.
SeasonLists ==
    { <<>> } \cup { <<a>> : a \in Seasons } \cup { <<a, b>> : a, b \in Seasons }

BuildTrainingDataset(table, quali_results, seasons) ==
    /\ call = NoCall
    /\ call' = [ op            |-> "build_training_dataset",
                 columns       |-> table.cols,
                 quali_results |-> quali_results,
                 seasons       |-> seasons ]
    /\ ret' = build_training_dataset(table, quali_results, seasons)
    /\ UNCHANGED <<race_results, laps, df, scalers>>

NextDataset ==
    \/ Edit
    \/ \E table \in HeldTables(race_results), q \in DatasetQualis,
          seasons \in SeasonLists : BuildTrainingDataset(table, q, seasons)

SpecDataset == Init /\ [][NextDataset]_vars

\* ------------------------------------------------------------------------
\* The race assembler on one race with every kind of finishing position
\* ------------------------------------------------------------------------

\* Finishing positions on both sides of the label limits, and a retirement.
LabelPositions == {NaN, Some(1), Some(3), Some(4), Some(10), Some(11)}

\* The result tables of the first race: one or both drivers.
LabelTables ==
    { <<ResultRow(1, 1, "VER", "RBR", p)>> : p \in LabelPositions }
    \cup { <<ResultRow(1, 1, "VER", "RBR", p), ResultRow(1, 1, "HAM", t, q)>> :
               p, q \in LabelPositions, t \in Teams }

InitLabels ==
    /\ race_results \in LabelTables
    /\ laps = NoTable
    /\ df = NoFrame
    /\ scalers = NoScalers
    /\ call = NoCall
    /\ ret = <<>>

NextLabels ==
    \E table \in HeldTables(race_results), q \in RaceQualis,
       s \in Seasons, r \in Rounds : BuildRaceFeatures(table, q, s, r)

SpecLabels == InitLabels /\ [][NextLabels]_vars

\* ------------------------------------------------------------------------
\* The feature functions as operations
\* ------------------------------------------------------------------------

\* The entities asked about; the tables hold every driver, team and circuit.
AskedDrivers == {"VER"}

AskedTeams == {"RBR"}

AskedCircuits == {"Monza"}

\* None, or a cutoff date.
Cutoffs == {NaN, Some(2), Some(3)}

\* The default window, and one shorter than the tables.
Windows == {1, 5}

ComputeDriverFeatures(driver_id, as_of_date, window) ==
    /\ call = NoCall
    /\ call' = [ op         |-> "compute_driver_features",
                 driver_id  |-> driver_id,
                 as_of_date |-> as_of_date,
                 window     |-> window ]
    /\ ret' = compute_driver_features(race_results, driver_id, as_of_date, window)
    /\ UNCHANGED <<race_results, laps, df, scalers>>

ComputeTeamFeatures(team_name, as_of_date, window) ==
    /\ call = NoCall
    /\ call' = [ op         |-> "compute_team_features",
                 team_name  |-> team_name,
                 as_of_date |-> as_of_date,
                 window     |-> window ]
    /\ ret' = compute_team_features(race_results, team_name, as_of_date, window)
    /\ UNCHANGED <<race_results, laps, df, scalers>>

ComputeCircuitFeatures(circuit_name, driver_id) ==
    /\ call = NoCall
    /\ call' = [ op           |-> "compute_circuit_features",
                 circuit_name |-> circuit_name,
                 driver_id    |-> driver_id ]
    /\ ret' = compute_circuit_features(race_results, circuit_name, driver_id)
    /\ UNCHANGED <<race_results, laps, df, scalers>>

NextFeat ==
    \/ Edit
    \/ \E d \in AskedDrivers, c \in Cutoffs, w \in Windows :
          ComputeDriverFeatures(d, c, w)
    \/ \E t \in AskedTeams, c \in Cutoffs, w \in Windows :
          ComputeTeamFeatures(t, c, w)
    \/ \E g \in AskedCircuits, d \in {NaN} \cup {Some(x) : x \in AskedDrivers} :
          ComputeCircuitFeatures(g, d)

SpecFeat == Init /\ [][NextFeat]_vars

\* ------------------------------------------------------------------------
\* The rolling aggregator as an operation
\* ------------------------------------------------------------------------

\* Each driver with a team of their own.
TeamFor(driver) == IF driver = "VER" THEN "RBR" ELSE "MER"

RollRows ==
    { ResultRow(s, r, d, TeamFor(d), p) :
          s \in Seasons, r \in Rounds, d \in Drivers, p \in {Some(1), Some(4), NaN} }

RollTables ==
    { t \in UNION {[1..n -> RollRows] : n \in 0..MaxRows} : WellFormed(t) }

\* Windows shorter than a driver's history.
RollWindows == {1, 2}

InitRoll ==
    /\ race_results \in RollTables
    /\ laps = NoTable
    /\ df = NoFrame
    /\ scalers = NoScalers
    /\ call = NoCall
    /\ ret = <<>>

ComputeDriverStats(window) ==
    /\ call = NoCall
    /\ call' = [op |-> "compute_driver_stats", window |-> window]
    /\ ret' = compute_driver_stats(race_results, window)
    /\ UNCHANGED <<race_results, laps, df, scalers>>

NextRoll == \E w \in RollWindows : ComputeDriverStats(w)

SpecRoll == InitRoll /\ [][NextRoll]_vars

\* ------------------------------------------------------------------------
\* The stint segmenter as an operation
\* ------------------------------------------------------------------------

MaxLaps == 4

Compounds == {Some("SOFT"), Some("HARD"), NaN}

\* The lap times of lap n: none, one on the line 89 + n, or 92 seconds.
LapTimes(n) == {NaN, Some(89 + n), Some(92)}

LapRow(driver, n, compound, time) ==
    [ Driver         |-> driver,
      LapNumber      |-> n,
      Compound       |-> compound,
      LapTimeSeconds |-> time ]

LapCols == {"Driver", "LapNumber", "Compound", "LapTimeSeconds"}

Reverse(s) == [i \in 1..Len(s) |-> s[Len(s) + 1 - i]]

\* The laps 1..n of VER, in lap order or the other way round, and one lap of
\* another driver after them.
LapRowsOf(n, compounds, times, reversed) ==
    LET own == [i \in 1..n |-> LapRow("VER", i, compounds[i], times[i])]
    IN  (IF reversed THEN Reverse(own) ELSE own)
        \o <<LapRow("HAM", 1, Some("HARD"), Some(92))>>

\* Lap tables with every column, without the Compound column and without the
\* LapTimeSeconds column (the cells of an absent column are never read).
TireTables(max_laps) ==
    UNION { { [cols |-> LapCols, rows |-> LapRowsOf(n, c, t, b)] :
                 c \in [1..n -> Compounds],
                 t \in { f \in [1..n -> UNION {LapTimes(i) : i \in 1..n}] :
                           \A i \in 1..n : f[i] \in LapTimes(i) },
                 b \in BOOLEAN }
            \cup
            { [cols |-> LapCols \ {"Compound"},
               rows |-> LapRowsOf(n, [i \in 1..n |-> NaN], t, FALSE)] :
                 t \in { f \in [1..n -> UNION {LapTimes(i) : i \in 1..n}] :
                           \A i \in 1..n : f[i] \in LapTimes(i) } }
            \cup
            { [cols |-> LapCols \ {"LapTimeSeconds"},
               rows |-> LapRowsOf(n, c, [i \in 1..n |-> NaN], FALSE)] :
                 c \in [1..n -> Compounds] }
          : n \in 0..max_laps }

InitTire ==
    /\ race_results = <<>>
    /\ laps \in TireTables(MaxLaps)
    /\ df = NoFrame
    /\ scalers = NoScalers
    /\ call = NoCall
    /\ ret = <<>>

ComputeTireFeatures(driver_id) ==
    /\ call = NoCall
    /\ call' = [op |-> "compute_tire_features", driver_id |-> driver_id]
    /\ ret' = compute_tire_features(laps, driver_id)
    /\ UNCHANGED <<race_results, laps, df, scalers>>

NextTire == \E d \in AskedDrivers : ComputeTireFeatures(d)

SpecTire == InitTire /\ [][NextTire]_vars

\* ------------------------------------------------------------------------
\* The validator as an operation
\* ------------------------------------------------------------------------

MaxNulls == 2

RowCounts == {0, 1, 2, 10, 11}

FrameColumns ==
    { <<>>, <<"Position">>, <<"Points">>,
      <<"Position", "Points">>, <<"Points", "Position">> }

\* The frame of n rows in which the first nulls[c] cells of column c are missing.
Frame(columns, n, nulls) ==
    [ columns |-> columns,
      rows    |-> [i \in 1..n |->
                     [c \in {columns[j] : j \in 1..Len(columns)} |->
                        IF i <= nulls[c] THEN NaN ELSE Some(1)]] ]

Frames ==
    { Frame(cs, n, nulls) :
        cs \in FrameColumns, n \in RowCounts,
        nulls \in [{"Position", "Points"} -> 0..MaxNulls] }

RequiredColumns ==
    { <<>>, <<"Position">>, <<"Position", "Points">>,
      <<"Points", "GridPosition">>, <<"GridPosition", "Status">> }

MinRows == {0, 2, 11, 100}

InitValidate ==
    /\ race_results = <<>>
    /\ laps = NoTable
    /\ df \in Frames
    /\ scalers = NoScalers
    /\ call = NoCall
    /\ ret = <<>>

ValidateData(required_columns, min_rows) ==
    /\ call = NoCall
    /\ call' = [op |-> "validate_data", required_columns |-> required_columns,
                min_rows |-> min_rows]
    /\ ret' = validate_data(df, required_columns, min_rows)
    /\ UNCHANGED <<race_results, laps, df, scalers>>

NextValidate ==
    \E required_columns \in RequiredColumns, min_rows \in MinRows :
        ValidateData(required_columns, min_rows)

SpecValidate == InitValidate /\ [][NextValidate]_vars

\* ------------------------------------------------------------------------
\* The scaler registry as operations
\* ------------------------------------------------------------------------

MaxScalerRows == 2

ScalerCells == {NaN, Some(2)}

ScalerFrameColumns == {<<>>, <<"Points">>, <<"Points", "GridPosition">>}

ScalerFrames ==
    UNION { { [columns |-> cs, rows |-> rows] :
                rows \in [1..n -> [{cs[k] : k \in 1..Len(cs)} -> ScalerCells]] }
            : cs \in ScalerFrameColumns, n \in 0..MaxScalerRows }

\* The column lists and the names a caller asks for.
ScalerColumns == {<<"Points">>, <<"Points", "GridPosition">>, <<"Status">>}

ScalerNames == {"default", "grid"}

InitScaler ==
    /\ race_results = <<>>
    /\ laps = NoTable
    /\ df \in ScalerFrames
    /\ scalers = NoScalers
    /\ call = NoCall
    /\ ret = <<>>

\* The caller comes with another table.
ChooseTable(frame) ==
    /\ frame # df
    /\ df' = frame
    /\ call' = NoCall
    /\ ret' = <<>>
    /\ UNCHANGED <<race_results, laps, scalers>>

FitScaler(columns, scaler_name) ==
    LET r == fit_scaler(scalers, df, columns, scaler_name)
    IN  /\ call' = [op |-> "fit_scaler", columns |-> columns,
                    scaler_name |-> scaler_name]
        /\ ret' = r.ret
        /\ scalers' = r.scalers
        /\ df' = r.df
        /\ UNCHANGED <<race_results, laps>>

TransformScaler(scaler_name) ==
    LET r == transform_scaler(scalers, df, scaler_name)
    IN  /\ call' = [op |-> "transform_scaler", scaler_name |-> scaler_name]
        /\ ret' = r.ret
        /\ scalers' = r.scalers
        /\ df' = r.df
        /\ UNCHANGED <<race_results, laps>>

NextScaler ==
    \/ \E frame \in ScalerFrames : ChooseTable(frame)
    \/ \E columns \in ScalerColumns, scaler_name \in ScalerNames :
          FitScaler(columns, scaler_name)
    \/ \E scaler_name \in ScalerNames : TransformScaler(scaler_name)

SpecScaler == InitScaler /\ [][NextScaler]_vars

\* ------------------------------------------------------------------------
\* The lap cleaner as an operation
\* ------------------------------------------------------------------------

MaxRawLaps == 2

\* The lap-time cells of a duration column, of a column of numbers and texts,
\* and of a column already in seconds.
DurationCells == {NaN, Some(Timedelta(59)), Some(Timedelta(60)),
                  Some(Timedelta(180)), Some(Timedelta(181))}

ObjectCells == {NaN, Some(Number(90)), Some(Number(200)),
                Some(Text("abc")), Some(Text("75"))}

SecondsCells == {NaN, Some(Number(59)), Some(Number(60)), Some(Number(181))}

\* A pit marker: missing, or the time of the pit entry or exit.
PitCells == {NaN, Some(Timedelta(7))}

\* The schemas of raw lap tables: column order and dtypes.
RawLapSchemas ==
    { [ columns |-> <<"LapNumber", "LapTime", "PitInTime", "PitOutTime", "Sector1Time">>,
        dtypes  |-> [ LapNumber |-> "int64", LapTime |-> "timedelta64",
                      PitInTime |-> "timedelta64", PitOutTime |-> "timedelta64",
                      Sector1Time |-> "timedelta64" ] ],
      [ columns |-> <<"LapNumber", "LapTime", "Sector1Time">>,
        dtypes  |-> [ LapNumber |-> "int64", LapTime |-> "timedelta64",
                      Sector1Time |-> "timedelta64" ] ],
      [ columns |-> <<"LapNumber", "LapTime", "PitInTime", "Sector1Time">>,
        dtypes  |-> [ LapNumber |-> "int64", LapTime |-> "object",
                      PitInTime |-> "timedelta64", Sector1Time |-> "object" ] ],
      [ columns |-> <<"LapNumber", "LapTimeSeconds", "PitOutTime">>,
        dtypes  |-> [ LapNumber |-> "int64", LapTimeSeconds |-> "float64",
                      PitOutTime |-> "timedelta64" ] ],
      [ columns |-> <<"LapNumber", "LapTimeSeconds", "LapTime">>,
        dtypes  |-> [ LapNumber |-> "int64", LapTimeSeconds |-> "float64",
                      LapTime |-> "timedelta64" ] ] }

\* The cells a column of the schema can hold in lap n.
RawCells(schema, c, n) ==
    IF c = "LapNumber" THEN {Some(Number(n))}
    ELSE IF c = "LapTime"
         THEN IF schema.dtypes[c] = "timedelta64" THEN DurationCells ELSE ObjectCells
    ELSE IF c = "LapTimeSeconds" THEN SecondsCells
    ELSE IF c = "Sector1Time"
         THEN IF schema.dtypes[c] = "timedelta64" THEN {Some(Timedelta(30))}
              ELSE {Some(Number(30))}
    ELSE PitCells

\* The cells of a column the schema does not have: never read.
RawCellsOrNone(schema, c, n) ==
    IF c \in DOMAIN schema.dtypes THEN RawCells(schema, c, n) ELSE {NaN}

\* The rows a raw lap table of the schema can hold at place n.
RawLapRows(schema, n) ==
    { [c \in {schema.columns[k] : k \in 1..Len(schema.columns)} |-> full[c]] :
        full \in { [ LapNumber |-> ln, LapTime |-> lt, LapTimeSeconds |-> ls,
                     PitInTime |-> pi, PitOutTime |-> po, Sector1Time |-> s1 ] :
                     ln \in RawCellsOrNone(schema, "LapNumber", n),
                     lt \in RawCellsOrNone(schema, "LapTime", n),
                     ls \in RawCellsOrNone(schema, "LapTimeSeconds", n),
                     pi \in RawCellsOrNone(schema, "PitInTime", n),
                     po \in RawCellsOrNone(schema, "PitOutTime", n),
                     s1 \in RawCellsOrNone(schema, "Sector1Time", n) } }

RECURSIVE RawLapRowSeqs(_, _)
RawLapRowSeqs(schema, n) ==
    IF n = 0 THEN {<<>>}
    ELSE { Append(t, r) : t \in RawLapRowSeqs(schema, n - 1),
                          r \in RawLapRows(schema, n) }

\* The raw lap tables of up to max_laps laps, and the table load_all_lap_times
\* returns when it could load nothing.
RawLapTables(max_laps) ==
    { [columns |-> <<>>, dtypes |-> <<>>, rows |-> <<>>] }
    \cup UNION { { [columns |-> schema.columns, dtypes |-> schema.dtypes, rows |-> rows] :
                     rows \in RawLapRowSeqs(schema, n) }
                 : schema \in RawLapSchemas, n \in 0..max_laps }

InitClean ==
    /\ race_results = <<>>
    /\ laps \in RawLapTables(MaxRawLaps)
    /\ df = NoFrame
    /\ scalers = NoScalers
    /\ call = NoCall
    /\ ret = <<>>

CleanLapTimes(remove_outliers) ==
    LET r == clean_lap_times(laps, remove_outliers, DefaultMinLapTime, DefaultMaxLapTime)
    IN  /\ call = NoCall
        /\ call' = [op |-> "clean_lap_times", remove_outliers |-> remove_outliers,
                    min_lap_time |-> DefaultMinLapTime,
                    max_lap_time |-> DefaultMaxLapTime]
        /\ ret' = r.ret
        /\ laps' = r.laps
        /\ UNCHANGED <<race_results, df, scalers>>

NextClean == \E remove_outliers \in BOOLEAN : CleanLapTimes(remove_outliers)

SpecClean == InitClean /\ [][NextClean]_vars

\* ------------------------------------------------------------------------
\* The result processor as an operation
\* ------------------------------------------------------------------------

MaxRawResults == 2

RawResultSchemas ==
    { [ columns |-> <<"Abbreviation", "Position", "GridPosition", "Status", "Points">>,
        dtypes  |-> [ Abbreviation |-> "object", Position |-> "object",
                      GridPosition |-> "object", Status |-> "object",
                      Points |-> "object" ] ],
      [ columns |-> <<"Abbreviation", "Position", "GridPosition">>,
        dtypes  |-> [ Abbreviation |-> "object", Position |-> "object",
                      GridPosition |-> "object" ] ],
      [ columns |-> <<"Abbreviation", "Status", "Points">>,
        dtypes  |-> [ Abbreviation |-> "object", Status |-> "object",
                      Points |-> "object" ] ] }

\* The cells a column of a raw result table can hold in row n.
RawResultCells(c, n) ==
    IF c = "Abbreviation" THEN {Some(Text(IF n = 1 THEN "VER" ELSE "HAM"))}
    ELSE IF c = "Position"
         THEN {NaN, Some(Number(1)), Some(Text("3")), Some(Text("R"))}
    ELSE IF c = "GridPosition" THEN {Some(Number(2)), Some(Text("PIT"))}
    ELSE IF c = "Status"
         THEN {NaN, Some(Text("Finished")), Some(Text("Engine"))}
    ELSE {NaN, Some(Number(25)), Some(Text("DSQ"))}

\* The rows a raw result table of the schema can hold at place n.
RawResultRows(schema, n) ==
    { [c \in {schema.columns[k] : k \in 1..Len(schema.columns)} |-> full[c]] :
        full \in { [ Abbreviation |-> a, Position |-> p, GridPosition |-> g,
                     Status |-> st, Points |-> pt ] :
                     a \in RawResultCells("Abbreviation", n),
                     p \in RawResultCells("Position", n),
                     g \in RawResultCells("GridPosition", n),
                     st \in RawResultCells("Status", n),
                     pt \in RawResultCells("Points", n) } }

RECURSIVE RawResultRowSeqs(_, _)
RawResultRowSeqs(schema, n) ==
    IF n = 0 THEN {<<>>}
    ELSE { Append(t, r) : t \in RawResultRowSeqs(schema, n - 1),
                          r \in RawResultRows(schema, n) }

RawResultTables(max_rows) ==
    UNION { { [columns |-> schema.columns, dtypes |-> schema.dtypes, rows |-> rows] :
                rows \in RawResultRowSeqs(schema, n) }
            : schema \in RawResultSchemas, n \in 0..max_rows }

InitProcess ==
    /\ race_results = <<>>
    /\ laps = NoTable
    /\ df \in RawResultTables(MaxRawResults)
    /\ scalers = NoScalers
    /\ call = NoCall
    /\ ret = <<>>

ProcessRaceResults ==
    LET r == process_race_results(df)
    IN  /\ call = NoCall
        /\ call' = [op |-> "process_race_results"]
        /\ ret' = r.ret
        /\ df' = r.df
        /\ UNCHANGED <<race_results, laps, scalers>>

NextProcess == ProcessRaceResults

SpecProcess == InitProcess /\ [][NextProcess]_vars

\* ------------------------------------------------------------------------
\* Every operation on a caller-owned table
\* ------------------------------------------------------------------------
\* The caller holds result records, or a lap table for the stint function, or
\* a raw lap table for the cleaner, or a raw result table for the processor,
\* or a numeric table for the scaler registry, and calls what goes with it.

\* (With no lap table and an empty numeric table the caller holds what Init
\* gives, and the result records are built up from there.)
InitOps == InitTire \/ InitClean \/ InitProcess \/ InitScaler

\* A table as the loader gives it, with the dtype of each column.
IsRaw(table) == "dtypes" \in DOMAIN table

NextOps ==
    \/ laps = NoTable /\ df = NoFrame /\ scalers = NoScalers /\ NextFeat
    \/ ~IsRaw(laps) /\ laps # NoTable /\ NextTire
    \/ IsRaw(laps) /\ NextClean
    \/ IsRaw(df) /\ NextProcess
    \/ /\ ~IsRaw(df) /\ race_results = <<>> /\ laps = NoTable
       /\ \/ \E columns \in ScalerColumns, scaler_name \in ScalerNames :
                FitScaler(columns, scaler_name)
          \/ \E scaler_name \in ScalerNames : TransformScaler(scaler_name)

SpecOps == InitOps /\ [][NextOps]_vars

\* ------------------------------------------------------------------------
\* The driver features on one driver's seasons, in any row order
\* ------------------------------------------------------------------------

MaxDriverRaces == 3

\* The records VER can have in the first races of season 1.
DriverRows(max_races) ==
    { ResultRow(1, r, "VER", "RBR", p) : r \in 1..max_races, p \in LabelPositions }

\* The tables of up to MaxDriverRaces records of VER, one per race, in any
\* order of rows, with or without a record of another driver.
DriverTablesOf(max_races, others) ==
    { others \o <<a>> : a \in DriverRows(max_races) }
    \cup { <<x[1]>> \o others \o <<x[2]>> :
               x \in { y \in DriverRows(max_races) \X DriverRows(max_races) :
                          y[1].Round # y[2].Round } }
    \cup { <<x[1], x[2]>> \o others \o <<x[3]>> :
               x \in { y \in DriverRows(max_races) \X DriverRows(max_races)
                            \X DriverRows(max_races) :
                          /\ y[1].Round # y[2].Round
                          /\ y[1].Round # y[3].Round
                          /\ y[2].Round # y[3].Round } }

DriverTables(max_races) ==
    {<<>>} \cup DriverTablesOf(max_races, <<>>)
           \cup DriverTablesOf(max_races, <<ResultRow(1, 1, "HAM", "MER", Some(1))>>)

\* No cutoff, a cutoff inside the season, and one after its last race.
DriverCutoffs == {NaN} \cup {Some(d) : d \in {MaxDriverRaces, MaxDriverRaces + 1}}

\* Windows shorter than the history, and the default.
DriverWindows == {1, 2, 5}

InitDriver ==
    /\ race_results \in DriverTables(MaxDriverRaces)
    /\ laps = NoTable
    /\ df = NoFrame
    /\ scalers = NoScalers
    /\ call = NoCall
    /\ ret = <<>>

NextDriver ==
    \E c \in DriverCutoffs, w \in DriverWindows : ComputeDriverFeatures("VER", c, w)

SpecDriver == InitDriver /\ [][NextDriver]_vars

\* ------------------------------------------------------------------------
\* The team features on races with one or two entries of the team
\* ------------------------------------------------------------------------

TeamPositions == {NaN, Some(1), Some(4)}

\* The entries of one race: none, VER for RBR alone, or VER for RBR with HAM
\* for RBR or for MER.
RaceEntries(r) ==
    { <<>> }
    \cup { <<ResultRow(1, r, "VER", "RBR", p)>> : p \in TeamPositions }
    \cup { <<ResultRow(1, r, "VER", "RBR", p), ResultRow(1, r, "HAM", t, q)>> :
               p, q \in TeamPositions, t \in Teams }

\* The tables of three races in schedule order, the last being race
\* max_races, and the same rows in reverse order.
TeamTables(max_races) ==
    UNION { { a \o b \o c, Reverse(a \o b \o c) } :
               a \in RaceEntries(max_races - 2), b \in RaceEntries(max_races - 1),
               c \in RaceEntries(max_races) }

InitTeam ==
    /\ race_results \in TeamTables(MaxDriverRaces)
    /\ laps = NoTable
    /\ df = NoFrame
    /\ scalers = NoScalers
    /\ call = NoCall
    /\ ret = <<>>

NextTeam ==
    \E c \in {NaN, Some(3)}, w \in DriverWindows : ComputeTeamFeatures("RBR", c, w)

SpecTeam == InitTeam /\ [][NextTeam]_vars

\* ------------------------------------------------------------------------
\* The session features as an operation
\* ------------------------------------------------------------------------

\* The qualifying rows of a driver: any position among pole, second and
\* missing, any session time among two times and missing.
SessionRows(driver) ==
    { QualiRow(driver, p, q) : p \in {Some(1), Some(2), NaN},
                               q \in {Some(80), Some(81), NaN} }

\* The rows of a table restricted to its columns.
WithCols(cols, rows) ==
    [ cols |-> cols,
      rows |-> [i \in 1..Len(rows) |-> [c \in cols |-> rows[i][c]]] ]

\* The qualifying tables of one event: no row, one driver or both, with and
\* without the session-time column.
SessionQualis ==
    UNION { { WithCols(cols, <<>>) }
            \cup { WithCols(cols, <<a>>) : a \in SessionRows("VER") }
            \cup { WithCols(cols, <<a, b>>) :
                       a \in SessionRows("VER"), b \in SessionRows("HAM") }
            : cols \in {QualiCols, QualiCols \ {"Q3"}} }

ComputeSessionFeatures(quali_results, driver_id) ==
    /\ call = NoCall
    /\ call' = [ op            |-> "compute_session_features",
                 quali_results |-> quali_results,
                 driver_id     |-> driver_id ]
    /\ ret' = compute_session_features(quali_results, NaN, driver_id)
    /\ UNCHANGED <<race_results, laps, df, scalers>>

NextSession ==
    \E q \in SessionQualis, d \in {NaN, Some("VER"), Some("HAM")} :
        ComputeSessionFeatures(q, d)

SpecSession == Init /\ [][NextSession]_vars

\* ------------------------------------------------------------------------
\* Two processor instances and their registries
\* ------------------------------------------------------------------------
\* In this specification the variable scalers is the heap of registry
\* objects: scalers[o] is the dict object o, and self.scalers of the instance
\* p is the object RegistryOf(p).

Processors == {1, 2}

\* One dict shared by every instance, as a class attribute would be.
RegistryOf_Shared(p) == 1

\* Line 30, self.scalers = {} in __init__: a new dict for each instance.
RegistryOf(p) == p

\* The tables the callers come with: one row, with one column or with two.
InstanceFrames ==
    { [ columns |-> <<"Points">>, rows |-> <<[Points |-> Some(2)]>> ],
      [ columns |-> <<"Points", "GridPosition">>,
        rows    |-> <<[Points |-> Some(2), GridPosition |-> NaN]>> ] }

InitInstances ==
    /\ race_results = <<>>
    /\ laps = NoTable
    /\ df = NoFrame
    /\ scalers = [o \in {RegistryOf(p) : p \in Processors} |-> NoScalers]
    /\ call = NoCall
    /\ ret = <<>>

FitScalerOn(p, frame, columns, scaler_name) ==
    LET r == fit_scaler(scalers[RegistryOf(p)], frame, columns, scaler_name)
    IN  /\ call' = [op |-> "fit_scaler", processor |-> p, columns |-> columns,
                    scaler_name |-> scaler_name]
        /\ ret' = r.ret
        /\ scalers' = [scalers EXCEPT ![RegistryOf(p)] = r.scalers]
        /\ df' = r.df
        /\ UNCHANGED <<race_results, laps>>

TransformScalerOn(p, frame, scaler_name) ==
    LET r == transform_scaler(scalers[RegistryOf(p)], frame, scaler_name)
    IN  /\ call' = [op |-> "transform_scaler", processor |-> p,
                    scaler_name |-> scaler_name]
        /\ ret' = r.ret
        /\ scalers' = [scalers EXCEPT ![RegistryOf(p)] = r.scalers]
        /\ df' = r.df
        /\ UNCHANGED <<race_results, laps>>

NextInstances ==
    \/ \E p \in Processors, frame \in InstanceFrames,
          columns \in ScalerColumns, scaler_name \in ScalerNames :
          FitScalerOn(p, frame, columns, scaler_name)
    \/ \E p \in Processors, frame \in InstanceFrames, scaler_name \in ScalerNames :
          TransformScalerOn(p, frame, scaler_name)

SpecInstances == InitInstances /\ [][NextInstances]_vars

\* ------------------------------------------------------------------------
\* time_series_split (processor.py)
\* ------------------------------------------------------------------------
\* A test size is written in tenths: the test_size t stands for the float
\* t / 10 (2 is the default 0.2).  A row carries its index label, so that a
\* row can be followed from the input to the two parts.

\* 1 - test_size in binary64 arithmetic, line 262: 1 - 0.8 is
\* 0.19999999999999996 and 1 - 0.9 is 0.09999999999999998, a whole unit in
\* the last place below 2/10 and 1/10, and the product with a row count stays
\* below the exact product.  For the other one-digit sizes the product with a
\* row count rounds to the exact product wherever that is an integer.
FallsShort(test_size) == test_size \in {8, 9}

\* int(len(df) * (1 - test_size)), line 262: the float product, truncated.
SplitIndex(n, test_size) ==
    LET exact == n * (10 - test_size)
    IN  IF FallsShort(test_size) /\ n > 0 /\ exact % 10 = 0
        THEN (exact \div 10) - 1
        ELSE exact \div 10

\* df.iloc[:k]
ilocUntil(frame, k) == SubSeq(frame, 1, k)

\* df.iloc[k:]
ilocFrom(frame, k) == SubSeq(frame, k + 1, Len(frame))

\* Lines 261-271.
time_series_split(frame, date_column, test_size) ==
    LET ordered   == sort_values(frame, date_column)
        split_idx == SplitIndex(Len(ordered), test_size)
    IN  [ train |-> ilocUntil(ordered, split_idx),
          test  |-> ilocFrom(ordered, split_idx) ]

MaxSplitRows == 5

SplitDates == {1, 2, 3}

TestSizes == {2, 5, 8}

\* The tables of at most max_rows rows, in any order of dates, ties included.
SplitTables(max_rows) ==
    UNION { { [i \in 1..n |-> [Index |-> i, Date |-> f[i]]] :
              f \in [1..n -> SplitDates] } : n \in 0..max_rows }

InitSplit ==
    /\ race_results = <<>>
    /\ laps = NoTable
    /\ df = NoFrame
    /\ scalers = NoScalers
    /\ call = NoCall
    /\ ret = <<>>

TimeSeriesSplit(frame, test_size) ==
    /\ call' = [op |-> "time_series_split", df |-> frame,
                test_size |-> test_size]
    /\ ret' = time_series_split(frame, "Date", test_size)
    /\ UNCHANGED <<race_results, laps, df, scalers>>

NextSplit ==
    \E frame \in SplitTables(MaxSplitRows), test_size \in TestSizes :
        TimeSeriesSplit(frame, test_size)

SpecSplit == InitSplit /\ [][NextSplit]_vars

\* ------------------------------------------------------------------------
\* C1: no leakage in build_race_features
\* ------------------------------------------------------------------------

\* The keys of the driver, circuit and team feature groups.
HistoryKeys ==
    (DOMAIN _default_driver_features) \cup (DOMAIN _default_circuit_features)
    \cup (DOMAIN _default_team_features)
    \cup { "driver_circuit_races", "driver_circuit_avg_finish",
           "driver_circuit_best_finish", "driver_circuit_wins",
           "driver_circuit_podiums" }

\* The driver-, circuit- and team-feature values of a driver's output row.
HistoryFeatures(t, s, r, d) ==
    LET rows == build_race_features(ResultTable(t), NoTable, s, r).rows
        row  == rows[CHOOSE i \in 1..Len(rows) : rows[i].Driver = d]
    IN  [k \in HistoryKeys \cap DOMAIN row |-> row[k]]

DriversOf(t, s, r) ==
    {TargetRace(t, s, r)[i].Abbreviation : i \in 1..Len(TargetRace(t, s, r))}

TeamOf(t, s, r, d) ==
    SelectSeq(TargetRace(t, s, r), LAMBDA x : x.Abbreviation = d)[1].TeamName

CircuitOf(t, s, r) == TargetRace(t, s, r)[1].GrandPrix

\* The records of a table whose (Season, Round) is before (s, r).
BeforeTarget(t, s, r) ==
    SelectSeq(t, LAMBDA x : x.Season < s \/ (x.Season = s /\ x.Round < r))

\* A step that alters, adds or removes only records at or after (s, r).
OnlyFromTargetOn(s, r) ==
    /\ race_results' # race_results
    /\ BeforeTarget(race_results', s, r) = BeforeTarget(race_results, s, r)

\* C1 as stated: whatever is altered, added or removed at or after the target
\* (season, round), the driver-, circuit- and team-feature values of every
\* driver of the target race stay the same.
C1_NoLeakage_AsStated ==
    [][ \A s \in Seasons, r \in Rounds :
          OnlyFromTargetOn(s, r) =>
            \A d \in DriversOf(race_results, s, r) \cap DriversOf(race_results', s, r) :
               HistoryFeatures(race_results', s, r, d)
                 = HistoryFeatures(race_results, s, r, d) ]_vars

\* C1 amended: the driver-, circuit- and team-feature values of a driver's row
\* do not change when records at or after the target (season, round) are
\* altered, added or removed, as long as the circuit name of the target race
\* and the driver's team in the target race stay the same.
C1_NoLeakage ==
    [][ \A s \in Seasons, r \in Rounds :
          OnlyFromTargetOn(s, r) =>
            \A d \in DriversOf(race_results, s, r) \cap DriversOf(race_results', s, r) :
               ( /\ CircuitOf(race_results', s, r) = CircuitOf(race_results, s, r)
                 /\ TeamOf(race_results', s, r, d) = TeamOf(race_results, s, r, d) )
               => HistoryFeatures(race_results', s, r, d)
                    = HistoryFeatures(race_results, s, r, d) ]_vars

\* A race was assembled for a driver with history before the target, from a
\* table that also holds a record after the target race.
C1_Witness ==
    /\ call.op = "build_race_features"
    /\ ~Raised(ret)
    /\ \E i \in 1..Len(ret.rows) :
          /\ ret.rows[i].career_races # Num(0)
          /\ ret.rows[i].team_avg_points_last_n # Num(5)
          /\ ret.rows[i].circuit_races_in_data # Num(0)
    /\ \E i \in 1..Len(race_results) :
          \/ race_results[i].Season > call.target_season
          \/ /\ race_results[i].Season = call.target_season
             /\ race_results[i].Round > call.target_round

\* ------------------------------------------------------------------------
\* C2: an explicit cutoff is strict
\* ------------------------------------------------------------------------

IsDriverCall == call.op = "compute_driver_features"

IsTeamCall == call.op = "compute_team_features"

IsCircuitCall == call.op = "compute_circuit_features"

\* The records of the entity of the call (the driver's, the team's).
OwnRecords(t) ==
    IF IsDriverCall
    THEN SelectSeq(t, LAMBDA r : r.Abbreviation = call.driver_id)
    ELSE SelectSeq(t, LAMBDA r : r.TeamName = call.team_name)

\* The records dated strictly before the cutoff of the call.
Earlier(t) == SelectSeq(t, LAMBDA r : r.Date < call.as_of_date[1])

Recompute(t) ==
    IF IsDriverCall
    THEN compute_driver_features(t, call.driver_id, call.as_of_date, call.window)
    ELSE compute_team_features(t, call.team_name, call.as_of_date, call.window)

\* C2: with an explicit cutoff, compute_driver_features and
\* compute_team_features return what they return on the entity's records dated
\* strictly before the cutoff alone: dropping every record dated at the cutoff
\* or later, and every record of another entity, changes no value; and when no
\* record of the entity is dated before the cutoff the default vector comes
\* back.
C2_StrictCutoff ==
    ((IsDriverCall \/ IsTeamCall) /\ call.as_of_date # NaN) =>
        /\ ret = Recompute(Earlier(race_results))
        /\ ret = Recompute(Earlier(OwnRecords(race_results)))
        /\ Len(Earlier(OwnRecords(race_results))) = 0 =>
              ret = IF IsDriverCall THEN _default_driver_features
                    ELSE _default_team_features

\* A call with a cutoff on a table holding a record of the entity before the
\* cutoff and one dated exactly at it.
C2_Witness ==
    /\ IsDriverCall \/ IsTeamCall
    /\ call.as_of_date # NaN
    /\ \E i, j \in 1..Len(OwnRecords(race_results)) :
          /\ OwnRecords(race_results)[i].Date < call.as_of_date[1]
          /\ OwnRecords(race_results)[j].Date = call.as_of_date[1]

\* ------------------------------------------------------------------------
\* C3: the default vectors
\* ------------------------------------------------------------------------

\* The filtered history of the call has no row.
NoHistory ==
    CASE IsDriverCall \/ IsTeamCall ->
           \A i \in 1..Len(OwnRecords(race_results)) :
              /\ call.as_of_date # NaN
              /\ ~(OwnRecords(race_results)[i].Date < call.as_of_date[1])
      [] IsCircuitCall ->
           \A i \in 1..Len(race_results) :
              race_results[i].GrandPrix # call.circuit_name
      [] OTHER -> FALSE

C4_DriverCircuitDefaults ==
    ( /\ IsCircuitCall
      /\ call.driver_id # NaN
      /\ \A i \in 1..Len(race_results) :
            ~( /\ race_results[i].GrandPrix = call.circuit_name
               /\ race_results[i].Abbreviation = call.driver_id[1] ) )
    => /\ { "driver_circuit_races", "driver_circuit_avg_finish",
            "driver_circuit_best_finish", "driver_circuit_wins",
            "driver_circuit_podiums" } \subseteq DOMAIN ret
       /\ ret.driver_circuit_races = <<0, 1>>
       /\ ret.driver_circuit_avg_finish = <<10, 1>>
       /\ ret.driver_circuit_best_finish = <<10, 1>>
       /\ ret.driver_circuit_wins = <<0, 1>>
       /\ ret.driver_circuit_podiums = <<0, 1>>

\* ------------------------------------------------------------------------
\* C5: the fixed key set of the assembled rows
\* ------------------------------------------------------------------------

\* Every key a row of build_race_features can carry.
AllRowKeys ==
    HistoryKeys
    \cup { "Season", "Round", "GrandPrix", "Driver", "Team" }
    \cup { "grid_position", "quali_gap_to_pole" }
    \cup { "Position", "Points", "IsWinner", "IsPodium", "IsPoints" }

\* C5: every row build_race_features produces carries the same, full set of
\* keys, whether or not the driver, team or circuit has history and whether or
\* not the driver is in the qualifying results.
C5_FixedKeySet ==
    (call.op = "build_race_features" /\ ~Raised(ret)) =>
        \A i \in 1..Len(ret.rows) : DOMAIN ret.rows[i] = AllRowKeys

\* ------------------------------------------------------------------------
\* C6: the rolling window
\* ------------------------------------------------------------------------

\* The place (1-based) of a record among its driver's records in ascending
\* Date order.
PlaceOf(rec) ==
    Cardinality({ i \in 1..Len(race_results) :
                    /\ race_results[i].Abbreviation = rec.Abbreviation
                    /\ race_results[i].Date <= rec.Date })

\* The driver's records at the places max(1, i - W + 1) .. i, i the place of
\* rec, in the caller's table.
WindowOf(rec, W) ==
    SelectSeq(race_results,
              LAMBDA x : /\ x.Abbreviation = rec.Abbreviation
                         /\ PlaceOf(x) <= PlaceOf(rec)
                         /\ PlaceOf(x) > PlaceOf(rec) - W)

\* The arithmetic mean of the values present in column c of the window.
WindowMean(rec, W, c) ==
    LET v == Present(Col(WindowOf(rec, W), c))
    IN  IF Len(v) = 0 THEN NaN ELSE Rat(SumInt(v), Len(v))

IsTireCall == call.op = "compute_tire_features"

\* The asked driver's lap with lap number n, in the caller's table.
LapNo(n) ==
    laps.rows[CHOOSE i \in 1..Len(laps.rows) :
                 laps.rows[i].Driver = call.driver_id /\ laps.rows[i].LapNumber = n]

NLaps ==
    Cardinality({i \in 1..Len(laps.rows) : laps.rows[i].Driver = call.driver_id})

\* Lap n carries another identifier than lap n - 1 (two laps without one carry
\* the same: none).
IdentifierChanges(n) ==
    /\ n > 1
    /\ "Compound" \in laps.cols
    /\ LapNo(n).Compound # LapNo(n - 1).Compound

\* The first lap of the stint lap n belongs to.
StintStart(n) ==
    CHOOSE m \in 1..n :
        /\ m = 1 \/ IdentifierChanges(m)
        /\ \A j \in (m + 1)..n : ~IdentifierChanges(j)

\* C7: the first lap is in stint 1, the stint number goes up by one at each
\* lap whose identifier differs from the previous lap's and stays otherwise,
\* the laps of a stint are numbered 1, 2, 3, ..., and without an identifier
\* column every lap is in stint 1.
C7_StintSegmentation ==
    IsTireCall =>
      LET sl == StintLaps(laps, call.driver_id)
      IN  /\ Len(sl) = NLaps
          /\ \A n \in 1..Len(sl) :
                /\ sl[n].LapNumber = n
                /\ sl[n].StintNumber =
                      1 + Cardinality({m \in 2..n : IdentifierChanges(m)})
                /\ sl[n].TireAge = n - StintStart(n) + 1

\* ------------------------------------------------------------------------
\* C8: the stints that are reported
\* ------------------------------------------------------------------------

\* The stint numbers compute_tire_features gave the driver's laps.
StintsOf(sl) == {sl[n].StintNumber : n \in 1..Len(sl)}

\* The laps of stint s with a valid (non-missing) lap time.
ValidLaps(sl, s) ==
    { n \in 1..Len(sl) :
        /\ sl[n].StintNumber = s
        /\ "LapTimeSeconds" \in laps.cols
        /\ sl[n].LapTimeSeconds # NaN }

AgeOf(sl, n) ==
    Cardinality({m \in 1..n : sl[m].StintNumber = sl[n].StintNumber})

\* C9: the rate reported for a stint is the least-squares slope of the lap
\* time against the in-stint age over the stint's valid laps, the ages counted
\* over all the laps of the stint; so when the valid laps lie on a line
\* a + k * age with k > 0 the rate is k.
C9_DegradationRate ==
    IsTireCall =>
      LET sl == StintLaps(laps, call.driver_id)
      IN  \A i \in 1..Len(ret.rows) :
            LET v   == ValidLaps(sl, ret.rows[i].StintNumber)
                n   == Cardinality(v)
                x   == [m \in v |-> AgeOf(sl, m)]
                y   == [m \in v |-> sl[m].LapTimeSeconds[1]]
                Sum(f) == SumInt([j \in 1..n |->
                             f[CHOOSE m \in v :
                                 Cardinality({q \in v : q <= m}) = j]])
                sx  == Sum(x)
                sy  == Sum(y)
                sxy == Sum([m \in v |-> x[m] * y[m]])
                sxx == Sum([m \in v |-> x[m] * x[m]])
                rate == ret.rows[i].DegradationRate
            IN  /\ rate[1] * (n * sxx - sx * sx) = rate[2] * (n * sxy - sx * sy)
                /\ \A a \in 80..95, k \in 1..3 :
                      (\A m \in v : y[m] = a + k * x[m]) => rate = <<k, 1>>

\* A reported stint whose valid laps lie on a rising line, with an invalid lap
\* between them.
C9_Witness ==
    /\ IsTireCall
    /\ \E i \in 1..Len(ret.rows) :
          /\ ret.rows[i].DegradationRate = <<1, 1>>
          /\ ret.rows[i].StintLength >
                Cardinality(ValidLaps(StintLaps(laps, call.driver_id),
                                      ret.rows[i].StintNumber))
          /\ \E n \in 2..(Len(StintLaps(laps, call.driver_id)) - 1) :
                /\ StintLaps(laps, call.driver_id)[n].LapTimeSeconds = NaN
                /\ StintLaps(laps, call.driver_id)[n - 1].LapTimeSeconds # NaN
                /\ StintLaps(laps, call.driver_id)[n + 1].LapTimeSeconds # NaN

\* ------------------------------------------------------------------------
\* C10: the validity flag
\* ------------------------------------------------------------------------

IsValidateCall == call.op = "validate_data"

\* The table has fewer rows than asked for.
Short == Len(df.rows) < call.min_rows

\* The required columns the table does not have, in the order asked.
Lacking ==
    SelectSeq(call.required_columns,
              LAMBDA c : \A i \in 1..Len(df.columns) : df.columns[i] # c)

InSeq(x, s) == \E i \in 1..Len(s) : s[i] = x

\* C10: is_valid is false exactly when the table is short of min_rows or lacks
\* a required column; a short table adds the row-count error string, a lacking
\* one adds an error string that names every column it lacks; with neither,
\* is_valid is true and there is no error; whether a high-null warning is
\* given has no part in is_valid.
C10_Validity ==
    IsValidateCall =>
      /\ ret.is_valid = (~Short /\ Len(Lacking) = 0)
      /\ Short =>
            InSeq("Insufficient data: " \o ToString(Len(df.rows))
                  \o " rows (need " \o ToString(call.min_rows) \o ")", ret.errors)
      /\ Len(Lacking) > 0 =>
            InSeq("Missing columns: " \o ListRepr(Lacking), ret.errors)
      /\ Len(ret.errors) = (IF Short THEN 1 ELSE 0)
                             + (IF Len(Lacking) > 0 THEN 1 ELSE 0)
      /\ (~Short /\ Len(Lacking) = 0) => ret.is_valid /\ ret.errors = <<>>

\* A table with exactly min_rows rows and every required column, valid in
\* spite of a high-null warning.
C10_Witness ==
    /\ IsValidateCall
    /\ Len(df.rows) = call.min_rows
    /\ Len(df.rows) > 0
    /\ Len(call.required_columns) > 0
    /\ ret.is_valid
    /\ ret.warnings # <<>>

\* ------------------------------------------------------------------------
\* C11: transform under a name that was never fit
\* ------------------------------------------------------------------------

\* C11: the registry starts empty and gains a name only by a fit_scaler call
\* on that name, and transform_scaler under a name the registry does not hold
\* raises the "not found" error to the caller and leaves the registry and the
\* caller's table as they were; so a name never fit fails whatever calls on
\* other names came before.
C11_UnknownScaler ==
    /\ scalers = NoScalers
    /\ [][ /\ \A n \in DOMAIN scalers' :
                \/ n \in DOMAIN scalers
                \/ call'.op = "fit_scaler" /\ call'.scaler_name = n
           /\ (call'.op = "transform_scaler" /\ call'.scaler_name \notin DOMAIN scalers)
                => /\ Raised(ret')
                   /\ ret' = [raise |-> "ValueError",
                              message |-> "Scaler '" \o call'.scaler_name \o "' not found"]
                   /\ scalers' = scalers
                   /\ df' = df ]_vars

\* The lookup failed for one name while the other name was registered.
C11_Witness ==
    /\ call.op = "transform_scaler"
    /\ Raised(ret)
    /\ call.scaler_name \notin DOMAIN scalers
    /\ DOMAIN scalers # {}

\* ------------------------------------------------------------------------
\* C12: what fit_scaler leaves in the registry
\* ------------------------------------------------------------------------

\* The asked columns the table has, in the order asked.
PresentColumns(frame, columns) ==
    SelectSeq(columns, LAMBDA c : \E k \in 1..Len(frame.columns) : frame.columns[k] = c)

\* C12: after every fit_scaler(df, columns, name) that returns, the registry
\* holds under name a transform fitted by this call on the zero-filled
\* columns of df and bound to exactly the asked columns present in df.
C12_FitRegisters ==
    [][ (call'.op = "fit_scaler" /\ ~Raised(ret'))
          => /\ call'.scaler_name \in DOMAIN scalers'
             /\ scalers'[call'.scaler_name].columns = PresentColumns(df, call'.columns)
             /\ scalers'[call'.scaler_name].scaler =
                   StandardScalerFit(FillNa(df, PresentColumns(df, call'.columns)),
                                     PresentColumns(df, call'.columns)) ]_vars

\* ------------------------------------------------------------------------
\* C13: the round trip
\* ------------------------------------------------------------------------

\* transform_scaler under the name of the fit_scaler call just before it, on
\* the same table, gives in every fitted column the values fit_scaler gave.
SameAsFitted ==
    /\ ~Raised(ret')
    /\ \A i \in 1..Len(df.rows) :
          \A k \in 1..Len(PresentColumns(df, call.columns)) :
              ret'.rows[i][PresentColumns(df, call.columns)[k]]
                = ret.rows[i][PresentColumns(df, call.columns)[k]]

\* A fit_scaler call that returned, followed by transform_scaler under the
\* same name on the same table.
FitThenTransform ==
    /\ call.op = "fit_scaler"
    /\ ~Raised(ret)
    /\ call'.op = "transform_scaler"
    /\ call'.scaler_name = call.scaler_name

LapSeconds(lap) ==
    IF "LapTime" \in DOMAIN lap
    THEN IF lap["LapTime"] = NaN THEN NaN
         ELSE IF lap["LapTime"][1].kind = "text"
              THEN (IF lap["LapTime"][1].text = "75" THEN Some(75) ELSE NaN)
              ELSE Some(lap["LapTime"][1].value)
    ELSE IF lap["LapTimeSeconds"] = NaN THEN NaN
    ELSE Some(lap["LapTimeSeconds"][1].value)

\* The lap is flagged as a pit-in or pit-out lap.
PitFlagged(lap) ==
    \/ "PitInTime" \in DOMAIN lap /\ lap["PitInTime"] # NaN
    \/ "PitOutTime" \in DOMAIN lap /\ lap["PitOutTime"] # NaN

\* C14: with default arguments the output holds, in their original order,
\* exactly the input laps whose lap time in seconds is present and within
\* [60, 180], ends included, and that carry no pit-in and no pit-out marker.
C14_KeptLaps ==
    (call.op = "clean_lap_times" /\ call.remove_outliers) =>
      /\ ~Raised(ret)
      /\ [i \in 1..Len(ret.rows) |-> ret.rows[i]["LapNumber"]]
           = [i \in 1..Len(SelectSeq(laps.rows,
                   LAMBDA lap : /\ LapSeconds(lap) # NaN
                                /\ LapSeconds(lap)[1] >= 60
                                /\ LapSeconds(lap)[1] <= 180
                                /\ ~PitFlagged(lap))) |->
                SelectSeq(laps.rows,
                   LAMBDA lap : /\ LapSeconds(lap) # NaN
                                /\ LapSeconds(lap)[1] >= 60
                                /\ LapSeconds(lap)[1] <= 180
                                /\ ~PitFlagged(lap))[i]["LapNumber"]]
      /\ \A i \in 1..Len(ret.rows) :
            \E j \in 1..Len(laps.rows) :
                /\ \A c \in DOMAIN laps.rows[j] \ {"LapTimeSeconds"} :
                      ret.rows[i][c] = laps.rows[j][c]
                /\ ret.rows[i]["LapTimeSeconds"] # NaN
                /\ ret.rows[i]["LapTimeSeconds"][1].kind = "number"
                /\ Some(ret.rows[i]["LapTimeSeconds"][1].value) = LapSeconds(laps.rows[j])

\* A lap of exactly 60 s and one of exactly 180 s kept.
C14_Witness ==
    /\ call.op = "clean_lap_times"
    /\ call.remove_outliers
    /\ Len(laps.rows) = 2
    /\ Len(ret.rows) = 2
    /\ ret.rows[1]["LapTimeSeconds"] = Some(Number(60))
    /\ ret.rows[2]["LapTimeSeconds"] = Some(Number(180))

\* ------------------------------------------------------------------------
\* C15: what process_race_results derives
\* ------------------------------------------------------------------------

\* The number a raw cell stands for, none when it is missing or not numeric.
NumericValue(cell) ==
    IF cell = NaN THEN NaN
    ELSE IF cell[1].kind = "number" THEN Some(cell[1].value)
    ELSE IF cell[1].text = "3" THEN Some(3)
    ELSE NaN

\* The number of an output cell, none when it is missing.
OutputValue(cell) == IF cell = NaN THEN NaN ELSE Some(cell[1].value)

\* C15: the output has the rows of the input, in order; in each row
\* PositionsGained is GridPosition - Position, missing when either is not
\* numeric; exactly one of IsFinished and IsDNF is true, IsFinished being
\* true for the status "Finished"; Points is its numeric value, 0 when
\* missing or not numeric.  Each part holds for the tables that have the
\* columns it reads.
C15_ProcessedResults ==
    call.op = "process_race_results" =>
      /\ ~Raised(ret)
      /\ Len(ret.rows) = Len(df.rows)
      /\ \A i \in 1..Len(df.rows) :
            LET in  == df.rows[i]
                out == ret.rows[i]
            IN  /\ out["Abbreviation"] = in["Abbreviation"]
                /\ ({"Position", "GridPosition"} \subseteq DOMAIN in) =>
                      /\ "PositionsGained" \in DOMAIN out
                      /\ OutputValue(out["PositionsGained"]) =
                            IF NumericValue(in["GridPosition"]) = NaN
                               \/ NumericValue(in["Position"]) = NaN
                            THEN NaN
                            ELSE Some(NumericValue(in["GridPosition"])[1]
                                      - NumericValue(in["Position"])[1])
                /\ "Status" \in DOMAIN in =>
                      /\ {"IsFinished", "IsDNF"} \subseteq DOMAIN out
                      /\ out["IsFinished"] # NaN /\ out["IsDNF"] # NaN
                      /\ out["IsFinished"][1].value + out["IsDNF"][1].value = 1
                      /\ (out["IsFinished"][1].value = 1)
                            <=> (in["Status"] = Some(Text("Finished")))
                /\ "Points" \in DOMAIN in =>
                      OutputValue(out["Points"]) =
                          IF NumericValue(in["Points"]) = NaN THEN Some(0)
                          ELSE NumericValue(in["Points"])

\* A table with every column: one row finished with a position given as text,
\* the other retired without position and points.
C15_Witness ==
    /\ call.op = "process_race_results"
    /\ Len(df.columns) = 5
    /\ Len(ret.rows) = 2
    /\ ret.rows[1]["IsFinished"] = Some(Bool(TRUE))
    /\ ret.rows[1]["PositionsGained"] = Some(Number(-1))
    /\ df.rows[1]["Position"] = Some(Text("3"))
    /\ ret.rows[2]["IsDNF"] = Some(Bool(TRUE))
    /\ ret.rows[2]["PositionsGained"] = NaN
    /\ ret.rows[2]["Points"] = Some(Number(0))

\* ------------------------------------------------------------------------
\* C16: no operation changes a caller-owned table
\* ------------------------------------------------------------------------

TableOperations ==
    { "clean_lap_times", "process_race_results", "fit_scaler", "transform_scaler",
      "compute_driver_features", "compute_team_features",
      "compute_circuit_features", "compute_tire_features" }

NoTargetRecord ==
    /\ call.op = "build_race_features"
    /\ TargetRace(race_results, call.target_season, call.target_round) = <<>>

\* C17: when the table holds no record of the target (season, round), the
\* call does not raise, returns a table without rows and logs one warning,
\* whatever the historical records and the qualifying table are.
C17_FailSoft ==
    NoTargetRecord =>
        /\ ~Raised(ret)
        /\ ret.rows = <<>>
        /\ Len(ret.log) = 1
        /\ ret.log[1].level = "warning"

\* C17 on the tables that carry the Season and Round columns.
C17_FailSoft_WithColumns ==
    (NoTargetRecord /\ {"Season", "Round"} \subseteq call.columns) =>
        ret = [ rows |-> <<>>,
                log  |-> <<Warning(NoDataMessage(call.target_season,
                                                 call.target_round))>> ]

\* A call on a table with historical records and a qualifying table, but no
\* record of the target race.
C17_SoftReached ==
    /\ NoTargetRecord
    /\ race_results # <<>>
    /\ call.quali_results # NoTable
    /\ ~Raised(ret)


\* ------------------------------------------------------------------------
\* C18: one round's failure does not abort the dataset build
\* ------------------------------------------------------------------------

IsDatasetCall == call.op = "build_training_dataset"

\* The race table of the call.
CallTable == [cols |-> call.columns, rows |-> race_results]

\* The season filter of lines 451-452 has no column to work on.
SeasonFilterFails ==
    call.seasons # <<>> /\ ~({"Season", "Round"} \subseteq call.columns)

\* What assembling one round on its own gives: its per-race table, or the
\* exception raised.
RoundAlone(s, r) ==
    IF ~({"Season", "Round"} \subseteq call.quali_results.cols) THEN Raise("KeyError")
    ELSE build_race_features(
           CallTable,
           [ cols |-> call.quali_results.cols,
             rows |-> SelectSeq(call.quali_results.rows,
                                LAMBDA q : q.Season = s /\ q.Round = r) ],
           s, r)

RoundFails(s, r) == Raised(RoundAlone(s, r))

\* C18: the build raises only when the season filter outside the per-round
\* try statement fails; otherwise every round of every requested season is
\* visited, the returned rows are the per-race tables of the rounds that did
\* not fail, one after another in visiting order (no row if all failed), and
\* one warning is logged for each round that failed.
C18_FailedRoundsSkipped ==
    IsDatasetCall =>
        LET visited == VisitedRounds(race_results, call.seasons)
            alone   == [i \in 1..Len(visited) |-> RoundAlone(visited[i][1], visited[i][2])]
            failed  == SelectSeq(alone, Raised)
        IN  /\ Raised(ret) <=> SeasonFilterFails
            /\ ~Raised(ret) =>
                  /\ \A i \in 1..Len(race_results) :
                        (\E k \in 1..Len(call.seasons) :
                             call.seasons[k] = race_results[i].Season)
                        => \E v \in 1..Len(visited) :
                              visited[v] = <<race_results[i].Season, race_results[i].Round>>
                  /\ ret.rows = Concat([i \in 1..Len(visited) |->
                                           IF Raised(alone[i]) THEN <<>>
                                           ELSE alone[i].rows])
                  /\ Len(ret.log) = Len(failed)
                  /\ \A i \in 1..Len(ret.log) : ret.log[i].level = "warning"

\* A build in which a round failed, a round visited after it did not, and the
\* rows of the later round were returned.
C18_Witness ==
    /\ IsDatasetCall
    /\ ~Raised(ret)
    /\ LET visited == VisitedRounds(race_results, call.seasons)
       IN  \E i, j \in 1..Len(visited) :
              /\ i < j
              /\ RoundFails(visited[i][1], visited[i][2])
              /\ RoundAlone(visited[i][1], visited[i][2]).raise = "IndexError"
              /\ ~RoundFails(visited[j][1], visited[j][2])
              /\ \E k \in 1..Len(ret.rows) :
                    /\ ret.rows[k].Season = visited[j][1]
                    /\ ret.rows[k].Round = visited[j][2]
    /\ Len(ret.log) >= 1

\* ------------------------------------------------------------------------
\* C19: one row per (season, round, driver) in the dataset
\* ------------------------------------------------------------------------

\* The rows of the returned table for one (season, round, driver).
RowsOf(s, r, d) ==
    { j \in 1..Len(ret.rows) :
         ret.rows[j].Season = s /\ ret.rows[j].Round = r /\ ret.rows[j].Driver = d }

\* Every driver in the records of a round of a requested season that
\* assembled has exactly one row, and no two rows share their key.
OneRowPerEntry ==
    /\ \A i \in 1..Len(race_results) :
          LET rec == race_results[i]
          IN  ( /\ \E k \in 1..Len(call.seasons) : call.seasons[k] = rec.Season
                /\ ~RoundFails(rec.Season, rec.Round) )
              => Cardinality(RowsOf(rec.Season, rec.Round, rec.Abbreviation)) = 1
    /\ \A i, j \in 1..Len(ret.rows) :
          ( /\ ret.rows[i].Season = ret.rows[j].Season
            /\ ret.rows[i].Round = ret.rows[j].Round
            /\ ret.rows[i].Driver = ret.rows[j].Driver ) => i = j

\* C19: for any race_results and any list of requested seasons, the returned
\* table has exactly one row for each driver of each round of each requested
\* season that assembles, and no two rows share (Season, Round, Driver).
C19_OneRowPerEntry ==
    (IsDatasetCall /\ ~Raised(ret)) => OneRowPerEntry

\* C19 for the lists that name no season twice.
C19_OneRowPerEntry_DistinctSeasons ==
    ( /\ IsDatasetCall
      /\ ~Raised(ret)
      /\ \A i, j \in 1..Len(call.seasons) :
            call.seasons[i] = call.seasons[j] => i = j )
    => OneRowPerEntry

\* A build over two distinct seasons that returned rows of both.
C19_BothSeasons ==
    /\ IsDatasetCall
    /\ ~Raised(ret)
    /\ Len(call.seasons) = 2
    /\ call.seasons[1] # call.seasons[2]
    /\ \E i, j \in 1..Len(ret.rows) : ret.rows[i].Season # ret.rows[j].Season


\* ------------------------------------------------------------------------
\* C20: the labels and keys of a row are those of the driver's own record
\* ------------------------------------------------------------------------

\* The driver's record in the target race of the call.
OwnRecord(driver) ==
    SelectSeq(race_results,
              LAMBDA x : /\ x.Season = call.target_season
                         /\ x.Round = call.target_round
                         /\ x.Abbreviation = driver)[1]

\* C20: every row of build_race_features carries Position and Points of the
\* driver's own target-race record, IsWinner iff that position is 1,
\* IsPodium iff it is at most 3, IsPoints iff it is at most 10 (all false
\* when it is missing), and Season, Round, GrandPrix, Driver and Team of the
\* target race.
C20_Labels ==
    (call.op = "build_race_features" /\ ~Raised(ret)) =>
        \A i \in 1..Len(ret.rows) :
            LET row == ret.rows[i]
                rec == OwnRecord(row.Driver)
            IN  /\ \E k \in 1..Len(race_results) : race_results[k] = rec
                /\ row.Position = rec.Position
                /\ row.Points = rec.Points
                /\ row.IsWinner <=> rec.Position = Some(1)
                /\ row.IsPodium <=> rec.Position \in {Some(n) : n \in 1..3}
                /\ row.IsPoints <=> rec.Position \in {Some(n) : n \in 1..10}
                /\ rec.Position = NaN =>
                      ~row.IsWinner /\ ~row.IsPodium /\ ~row.IsPoints
                /\ row.IsWinner => row.IsPodium
                /\ row.IsPodium => row.IsPoints
                /\ row.Season = call.target_season /\ row.Season = rec.Season
                /\ row.Round = call.target_round /\ row.Round = rec.Round
                /\ row.GrandPrix = rec.GrandPrix
                /\ row.Team = rec.TeamName

\* A race assembled with a driver who finished tenth (in the points, off the
\* podium) and a driver who retired.
C20_Witness ==
    /\ call.op = "build_race_features"
    /\ ~Raised(ret)
    /\ \E i, j \in 1..Len(ret.rows) :
          /\ ret.rows[i].Position = Some(10)
          /\ ret.rows[i].IsPoints /\ ~ret.rows[i].IsPodium
          /\ ret.rows[j].Position = NaN
          /\ ~ret.rows[j].IsPoints


\* ------------------------------------------------------------------------
\* C21: recent counts over the last W records, career figures over all
\* ------------------------------------------------------------------------

\* The driver's records before the cutoff of the call.
OwnHistory ==
    { race_results[i] : i \in { k \in 1..Len(race_results) :
          /\ race_results[k].Abbreviation = call.driver_id
          /\ (call.as_of_date # NaN => race_results[k].Date < call.as_of_date[1]) } }

\* Its last min(W, n) records by date: those with fewer than W later ones.
LastRecords ==
    { r \in OwnHistory :
         Cardinality({ q \in OwnHistory : q.Date > r.Date }) < call.window }

FinishedWithin(records, limit) ==
    Cardinality({ r \in records : r.Position \in {Some(n) : n \in 1..limit} })

\* For a driver with n >= 1 records before the cutoff: the recent counts over
\* the last min(W, n) records by date, the career figures over all n.
RecentAndCareer ==
    (call.op = "compute_driver_features" /\ OwnHistory # {}) =>
        /\ Cardinality(LastRecords) = IF Cardinality(OwnHistory) < call.window
                                      THEN Cardinality(OwnHistory) ELSE call.window
        /\ ret.wins_last_n = Num(FinishedWithin(LastRecords, 1))
        /\ ret.podiums_last_n = Num(FinishedWithin(LastRecords, 3))
        /\ ret.points_finishes_last_n = Num(FinishedWithin(LastRecords, 10))
        /\ ret.career_races = Num(Cardinality(OwnHistory))
        /\ ret.career_wins = Num(FinishedWithin(OwnHistory, 1))
        /\ ret.career_podiums = Num(FinishedWithin(OwnHistory, 3))
        /\ ret.career_points =
              Num(SumInt([i \in 1..MaxDriverRaces |->
                            IF \E r \in OwnHistory : r.Round = i
                            THEN (CHOOSE r \in OwnHistory : r.Round = i).Points
                            ELSE 0]))
        /\ ret.dnf_rate = Rat(Cardinality({ r \in OwnHistory : r.IsDNF }),
                              Cardinality(OwnHistory))

\* The example of the specification: a win, a third place and a retirement,
\* window 5, as of the fourth race.
SpecExample ==
    ( /\ call.op = "compute_driver_features"
      /\ call.window = 5
      /\ call.as_of_date = Some(4)
      /\ OwnHistory = { ResultRow(1, 1, "VER", "RBR", Some(1)),
                        ResultRow(1, 2, "VER", "RBR", Some(3)),
                        ResultRow(1, 3, "VER", "RBR", NaN) } )
    => ( /\ ret.wins_last_n = Num(1)
         /\ ret.podiums_last_n = Num(2)
         /\ ret.dnf_rate = Rat(1, 3)
         /\ ret.career_races = Num(3) )

\* C21: for a driver with n >= 1 records before the cutoff, wins_last_n,
\* podiums_last_n and points_finishes_last_n count positions 1, <= 3 and
\* <= 10 over the last min(W, n) records by date only, while career_races
\* = n, the career wins, podiums and points and dnf_rate = DNF records / n
\* are taken over all n records; the example of the specification gives
\* wins_last_n = 1, podiums_last_n = 2, dnf_rate = 1/3, career_races = 3.
C21_RecentAndCareer == RecentAndCareer /\ SpecExample

\* The example of the specification was computed.
ExampleReached ==
    /\ call.op = "compute_driver_features"
    /\ call.window = 5
    /\ call.as_of_date = Some(4)
    /\ Cardinality(OwnHistory) = 3
    /\ ret.wins_last_n = Num(1) /\ ret.podiums_last_n = Num(2)
    /\ ret.dnf_rate = Rat(1, 3)

\* A call with a window shorter than the history, on rows that are not in
\* date order, whose career counts exceed the recent ones.
C21_Witness ==
    /\ call.op = "compute_driver_features"
    /\ Cardinality(OwnHistory) = 3
    /\ call.window = 2
    /\ \E i \in 1..(Len(race_results) - 1) :
          race_results[i].Date > race_results[i + 1].Date
    /\ ret.career_wins = Num(1) /\ ret.wins_last_n = Num(0)
    /\ ret.career_podiums = Num(2) /\ ret.podiums_last_n = Num(1)
    /\ ret.points_finishes_last_n = Num(2)


\* ------------------------------------------------------------------------
\* C22: the team's races are aggregated first, then rolled
\* ------------------------------------------------------------------------

\* The team's entries before the cutoff of the call.
TeamEntries ==
    { race_results[i] : i \in { k \in 1..Len(race_results) :
          /\ race_results[k].TeamName = call.team_name
          /\ (call.as_of_date # NaN => race_results[k].Date < call.as_of_date[1]) } }

\* The rounds of the team's last W races: those with fewer than W later ones.
LastRounds ==
    { e.Round : e \in { x \in TeamEntries :
          Cardinality({ y.Round : y \in { z \in TeamEntries : z.Round > x.Round } })
            < call.window } }

\* The team's entry of a driver in a round, as a sequence of none or one.
EntryOf(r, d) ==
    IF \E e \in TeamEntries : e.Round = r /\ e.Abbreviation = d
    THEN <<CHOOSE e \in TeamEntries : e.Round = r /\ e.Abbreviation = d>>
    ELSE <<>>

EntriesOf(r) == EntryOf(r, "VER") \o EntryOf(r, "HAM")

\* The summed points and the averaged position of the team in a round.
RacePoints(r) == SumInt(Col(EntriesOf(r), "Points"))

RacePosition(r) == MeanOpt(Col(EntriesOf(r), "Position"))

\* The last rounds in order.
LastRoundSeq == SelectSeq([r \in 1..MaxDriverRaces |-> r], LAMBDA r : r \in LastRounds)

\* C22: team_avg_points_last_n is the mean, over the team's last W races, of
\* the points summed per race, team_avg_finish_last_n the mean of the
\* positions averaged per race, and team_reliability_rate is 1 minus the
\* share of DNF among all of the team's entries before the cutoff.
C22_AggregateThenRoll ==
    (IsTeamCall /\ TeamEntries # {}) =>
        /\ ret.team_avg_points_last_n =
              Rat(SumInt([k \in 1..Len(LastRoundSeq) |-> RacePoints(LastRoundSeq[k])]),
                  Len(LastRoundSeq))
        /\ ret.team_avg_finish_last_n =
              MeanRat([k \in 1..Len(LastRoundSeq) |-> RacePosition(LastRoundSeq[k])])
        /\ ret.team_reliability_rate =
              RatSub(Num(1), Rat(Cardinality({ e \in TeamEntries : e.IsDNF }),
                                 Cardinality(TeamEntries)))

\* A call with a window shorter than the team's history, whose last races
\* hold two entries with different positions and no retirement, while an
\* earlier race holds one.
C22_Witness ==
    /\ IsTeamCall
    /\ call.window = 1
    /\ Cardinality(LastRounds) = 1
    /\ Cardinality(TeamEntries) = 3
    /\ \E r \in LastRounds :
          /\ Len(EntriesOf(r)) = 2
          /\ RacePosition(r) = Rat(5, 2)
          /\ RacePoints(r) = 37
    /\ ret.team_avg_finish_last_n = Rat(5, 2)
    /\ ret.team_avg_points_last_n = Num(37)
    /\ ret.team_reliability_rate = Rat(2, 3)


\* ------------------------------------------------------------------------
\* C23: the gap to pole, or its default, for a driver who qualified
\* ------------------------------------------------------------------------

\* The call is for a driver with a row in the qualifying table.
DriverQualified ==
    /\ call.op = "compute_session_features"
    /\ call.driver_id # NaN
    /\ \E i \in 1..Len(call.quali_results.rows) :
          call.quali_results.rows[i].Abbreviation = call.driver_id[1]

\* The driver's row and the rows with position 1.
OwnQualiRow ==
    SelectSeq(call.quali_results.rows,
              LAMBDA x : x.Abbreviation = call.driver_id[1])[1]

PoleRows == SelectSeq(call.quali_results.rows, LAMBDA x : x.Position = Some(1))

\* Both times are there: the column, the driver's time, a pole row, its time.
GapComputable ==
    /\ "Q3" \in call.quali_results.cols
    /\ OwnQualiRow.Q3 # NaN
    /\ Len(PoleRows) > 0
    /\ PoleRows[1].Q3 # NaN

GapOrDefault ==
    /\ ~Raised(ret)
    /\ ret.quali_gap_to_pole =
          IF GapComputable THEN Num(OwnQualiRow.Q3[1] - PoleRows[1].Q3[1])
          ELSE Num(1)

\* C23: for a driver with a row in the qualifying table,
\* compute_session_features does not raise and gives quali_gap_to_pole as
\* the driver's time minus the pole time when both are there (0 for the
\* pole sitter), and 1.0 when the time column is absent, the driver's time
\* or the pole time is missing, or no row has position 1.
C23_GapOrDefault == DriverQualified => GapOrDefault

\* C23 on the tables that have no time column, or a pole row with a time.
C23_GapOrDefault_WithPole ==
    ( /\ DriverQualified
      /\ "Q3" \in call.quali_results.cols
            => (Len(PoleRows) > 0 /\ PoleRows[1].Q3 # NaN) )
    => GapOrDefault

\* A gap was computed for a driver behind the pole sitter.
C23_GapReached ==
    /\ DriverQualified
    /\ GapComputable
    /\ ~Raised(ret)
    /\ ret.quali_gap_to_pole = Num(1)
    /\ OwnQualiRow.Position = Some(2)


\* ------------------------------------------------------------------------
\* C24: registry isolation
\* ------------------------------------------------------------------------

\* self.scalers of an instance, before and after a step.
Registry(p) == scalers[RegistryOf(p)]

RegistryAfter(p) == scalers'[RegistryOf(p)]

\* The entry of an instance under a name is after the step what it was before.
EntryKept(p, n) ==
    /\ n \in DOMAIN Registry(p) <=> n \in DOMAIN RegistryAfter(p)
    /\ n \in DOMAIN Registry(p) => RegistryAfter(p)[n] = Registry(p)[n]

\* C24: over any sequence of fit_scaler and transform_scaler calls on two
\* processor instances, a fit under a name on one instance leaves every
\* entry under another name, and every entry of the other instance, as it
\* was, and a transform leaves every entry of every instance as it was.
C24_RegistryIsolation ==
    [][ /\ call'.op = "fit_scaler" =>
              \A p \in Processors, n \in ScalerNames :
                  (p # call'.processor \/ n # call'.scaler_name) => EntryKept(p, n)
        /\ call'.op = "transform_scaler" =>
              \A p \in Processors, n \in ScalerNames : EntryKept(p, n) ]_vars

\* After a fit on the first instance, it holds both names while the second
\* instance holds only one of them, with another transform under it.
C24_Witness ==
    /\ call.op = "fit_scaler"
    /\ "processor" \in DOMAIN call
    /\ call.processor = 1
    /\ DOMAIN Registry(1) = ScalerNames
    /\ DOMAIN Registry(2) = {"grid"}
    /\ Registry(2)["grid"] # Registry(1)["grid"]

\* ------------------------------------------------------------------------
\* C25: chronological split
\* ------------------------------------------------------------------------

IsSplitCall == call # NoCall /\ call.op = "time_series_split"

\* The index labels of the rows of a table.
Labels(frame) == {frame[i].Index : i \in 1..Len(frame)}

\* Every input row is in exactly one of the two parts.
EveryRowOnce ==
    /\ Len(ret.train) + Len(ret.test) = Len(call.df)
    /\ Labels(ret.train) \cap Labels(ret.test) = {}
    /\ \A i \in 1..Len(call.df) :
           \E part \in {ret.train, ret.test} :
               \E j \in 1..Len(part) : part[j] = call.df[i]

\* The two parts, one after the other, are in ascending date order.
AscendingDates ==
    LET both == ret.train \o ret.test
    IN  \A i, j \in 1..Len(both) : i < j => both[i].Date <= both[j].Date

\* No row of the train part is dated later than a row of the test part.
NoLaterTrainRow ==
    \A i \in 1..Len(ret.train), j \in 1..Len(ret.test) :
        ret.train[i].Date <= ret.test[j].Date

\* floor(n * (1 - test_size)) for the test size call.test_size / 10.
ExactTrainCount == (Len(call.df) * (10 - call.test_size)) \div 10

\* C25: after time_series_split, every input row is in exactly one of train
\* and test, the train part is the first floor(n * (1 - test_size)) rows of
\* the table in ascending date order, and no train row is dated later than a
\* test row.
C25_ChronologicalSplit ==
    IsSplitCall =>
        /\ EveryRowOnce
        /\ AscendingDates
        /\ NoLaterTrainRow
        /\ Len(ret.train) = ExactTrainCount

\* What the split does keep: the partition, the order and the absence of a
\* later train row for every test size, and the exact train count for every
\* test size whose complement the float arithmetic does not fall short of.
C25_ChronologicalSplit_FloatCount ==
    IsSplitCall =>
        /\ EveryRowOnce
        /\ AscendingDates
        /\ NoLaterTrainRow
        /\ Len(ret.train) <= ExactTrainCount
        /\ Len(ret.train) >= ExactTrainCount - 1
        /\ ~FallsShort(call.test_size) => Len(ret.train) = ExactTrainCount

\* A split of an unsorted table with tied dates at the default test size,
\* with rows on both sides.
C25_SplitReached ==
    /\ IsSplitCall
    /\ call.test_size = 2
    /\ Len(call.df) = 5
    /\ call.df[1].Date > call.df[5].Date
    /\ Len(ret.train) = 4
    /\ ret.train[4].Date = ret.test[1].Date

====
